---- MODULE Spec2Model ----
(***************************************************************************)
(* Verification model of the chat-over-email core (deltachat-core-rust):   *)
(* the Authentication-Results gate of src/src/authres_handling.rs, the    *)
(* SMTP loop, the folder loops and the scheduler of src/src/scheduler.rs,  *)
(* the snapshot codec of src/src/sql/serialize.rs and deserialize.rs, and  *)
(* idle and fake_idle of src/src/imap/idle.rs.                             *)
(*                                                                         *)
(* Rust strings are modelled as sequences of one-character strings, so     *)
(* that splitting, joining and substring search are computed as the code   *)
(* computes them.                                                          *)
(***************************************************************************)
EXTENDS Integers, Sequences, FiniteSets, TLC

VARIABLES
    config,            \* Config::AuthservidCandidates: None or a string
    sending_domains,   \* rows of table sending_domains
    pc,                \* position of the message ingestion: idle/received/done
    mail,              \* the inbound message: From address and header values
    ret,               \* what handle_authres returned for `mail`
    old,               \* the store as it was when handle_authres was entered
    locals,            \* the locals of handle_authres as it returned
    hdrs,              \* parser harness: the Authentication-Results values
    fdom,              \* parser harness: the from_domain
    parsed,            \* parser harness: result of parse_authres_headers
    ppc,               \* parser harness: position
    timeout,           \* smtp_loop: `timeout`, None or Some(seconds as u64)
    smtp_pc,           \* smtp_loop: the await the loop is at
    smtp_chan,         \* the SMTP idle_interrupt channel (capacity 1)
    fails,             \* send_smtp_messages failures since its last success
    last_send,         \* outcome of the last send_smtp_messages call
    woke,              \* what ended the last wait of smtp_loop
    scheduler,         \* Context.scheduler: "none" or "some"
    start_pc,          \* position of Scheduler::start
    stop_pc,           \* position of Scheduler::stop: phase and index
    watched,           \* the IMAP boxes of the scheduler: inbox, then oboxes
    task,              \* state of each worker task
    started,           \* workers that have sent their started signal
    stop_chan,         \* each worker's stop channel: empty, full or closed
    intr,              \* each worker's idle_interrupt channel (capacity 1)
    last_info,         \* the info of the last call of interrupt, if any
    aux,               \* the ephemeral, location and recently-seen tasks
    aux_chan,          \* the ephemeral and location interrupt channels
    stop_sent,         \* workers whose ConnectionState::stop has returned
    awaited,           \* workers whose handle await has finished
    detached,          \* workers whose handle await timed out
    stop_errs,         \* workers whose ConnectionState::stop returned Err
    loop_pc,           \* folder loop: the await the loop is at
    loop_stop,         \* folder loop: its stop channel: empty, full or closed
    folder_meaning,    \* folder loop: the folder it watches; smtp: the SMTP loop
    round,             \* folder loop: what the current fetch_idle call did
    connectivity,      \* folder loop: the connectivity of its connection
    fetched_existing_msgs, \* folder loop: the persisted Config::FetchedExistingMsgs
    download,          \* folder loop: the msg_ids in the table download
    seed_attempts,     \* folder loop: calls of fetch_existing_msgs on this store
    db,                \* snapshot codec: the committed store
    wire,              \* snapshot codec: the bytes of the snapshot stream
    toks,              \* snapshot codec: the tokens the stream was built from
    codec_pc,          \* snapshot codec: position
    decoded,           \* snapshot codec: what Sql::deserialize returned and read
    scan_pc,           \* concurrent folder loops: the step each loop is at
    imap,              \* idle: the Imap connection inside idle or fake_idle
    gate               \* concurrent gate: the runs of the gate in progress

authresVars == <<config, sending_domains, pc, mail, ret, old, locals>>
parseVars == <<hdrs, fdom, parsed, ppc>>
smtpVars == <<timeout, smtp_pc, smtp_chan, fails, last_send, woke>>
schedVars == <<scheduler, start_pc, stop_pc, watched, task, started, stop_chan, intr,
               last_info, aux, aux_chan, stop_sent, awaited, detached,
               stop_errs>>
loopVars == <<loop_pc, loop_stop, folder_meaning, round, connectivity,
              fetched_existing_msgs, download, seed_attempts>>
codecVars == <<db, wire, toks, codec_pc, decoded>>
foldersVars == <<scan_pc>>
idleVars == <<imap>>
gateVars == <<gate>>
vars == <<config, sending_domains, pc, mail, ret, old, locals, hdrs, fdom, parsed, ppc,
          timeout, smtp_pc, smtp_chan, fails, last_send, woke,
          scheduler, start_pc, stop_pc, watched, task, started, stop_chan, intr,
          last_info, aux, aux_chan, stop_sent, awaited, detached,
          stop_errs, loop_pc, loop_stop, folder_meaning, round, connectivity,
          fetched_existing_msgs, download, seed_attempts,
          db, wire, toks, codec_pc, decoded, foldersVars, idleVars, gateVars>>

\* the variables of smtp_loop while no SMTP loop is modelled
SmtpOff ==
    /\ timeout = <<>>
    /\ smtp_pc = "off"
    /\ smtp_chan = <<>>
    /\ fails = 0
    /\ last_send = "none"
    /\ woke = "none"

\* the variables of the scheduler while no scheduler is modelled
SchedOff ==
    /\ scheduler = "off"
    /\ start_pc = "off"
    /\ stop_pc = "off"
    /\ watched = <<>>
    /\ task = <<>>
    /\ started = {}
    /\ stop_chan = <<>>
    /\ intr = <<>>
    /\ last_info = <<>>
    /\ aux = "off"
    /\ aux_chan = <<>>
    /\ stop_sent = {}
    /\ awaited = {}
    /\ detached = {}
    /\ stop_errs = {}

\* the variables of the folder loop while no folder loop is modelled
LoopOff ==
    /\ loop_pc = "off"
    /\ loop_stop = "off"
    /\ folder_meaning = "off"
    /\ round = <<>>
    /\ connectivity = "off"
    /\ fetched_existing_msgs = FALSE
    /\ download = {}
    /\ seed_attempts = "off"

\* the variables of the snapshot codec while no codec is modelled
CodecOff ==
    /\ db = <<>>
    /\ wire = <<>>
    /\ toks = <<>>
    /\ codec_pc = "off"
    /\ decoded = <<>>

\* the variables of the concurrent folder loops while they are not modelled
FoldersOff == scan_pc = <<>>

\* the variables of idle and fake_idle while they are not modelled
IdleOff == imap = <<>>

\* the variables of the concurrent gate runs while they are not modelled
GateOff == gate = <<>>

(***************************************************************************)
(* Bounds of the model.                                                    *)
(***************************************************************************)
\* Largest msg_id in the table download.
MaxMsgs == 2

MsgIds == 1..MaxMsgs

\* Largest number of Authentication-Results headers on one message.
MaxHeaders == 2
\* Largest number of text pieces a header value of the parser harness has.
MaxPieces == 4

(***************************************************************************)
(* Strings.                                                                *)
(***************************************************************************)
\* Option<T>: None, or Some(v)
None == <<>>
Some(v) == <<v>>
\* Result<T>: the Ok variant (the store of the model never fails)
Ok(v) == [tag |-> "Ok", value |-> v]

\* char::is_whitespace
IsWhitespace(c) == c \in {" ", "\t", "\n", "\r"}

\* str::find(c) from position `from`: index of the first c, 0 when absent
RECURSIVE IndexOf(_, _, _)
IndexOf(s, c, from) ==
    IF from > Len(s) THEN 0
    ELSE IF s[from] = c THEN from
    ELSE IndexOf(s, c, from + 1)

\* whether `pat` occurs in s at position i
MatchesAt(s, pat, i) ==
    /\ i + Len(pat) - 1 <= Len(s)
    /\ \A k \in 1..Len(pat) : s[i + k - 1] = pat[k]

\* str::find(pat): index of the first occurrence of the (non-empty) pat, 0 when absent
RECURSIVE Find(_, _, _)
Find(s, pat, from) ==
    IF from + Len(pat) - 1 > Len(s) THEN 0
    ELSE IF s[from] = pat[1] /\ MatchesAt(s, pat, from) THEN from
    ELSE Find(s, pat, from + 1)

\* s.split(c).next(): the text before the first c, the whole of s without one
SplitFirst(s, c) ==
    LET i == IndexOf(s, c, 1)
    IN  IF i = 0 THEN s ELSE SubSeq(s, 1, i - 1)

\* str::split_whitespace: the maximal runs of non-whitespace, in order
\* (i scans s; start is where the word at hand began, 0 outside a word)
RECURSIVE SplitWhitespaceFrom(_, _, _)
SplitWhitespaceFrom(s, i, start) ==
    IF i > Len(s)
    THEN IF start = 0 THEN <<>> ELSE <<SubSeq(s, start, Len(s))>>
    ELSE IF IsWhitespace(s[i])
         THEN (IF start = 0 THEN <<>> ELSE <<SubSeq(s, start, i - 1)>>)
              \o SplitWhitespaceFrom(s, i + 1, 0)
         ELSE SplitWhitespaceFrom(s, i + 1, IF start = 0 THEN i ELSE start)

split_whitespace(s) == SplitWhitespaceFrom(s, 1, 0)

\* slip: the ids joined with "," where the reader splits at whitespace
RECURSIVE Join_comma(_)
Join_comma(words) ==
    IF words = <<>> THEN <<>>
    ELSE IF Len(words) = 1 THEN words[1]
    ELSE words[1] \o <<",">> \o Join_comma(Tail(words))

\* slice::join(" ")
RECURSIVE Join(_)
Join(words) ==
    IF words = <<>> THEN <<>>
    ELSE IF Len(words) = 1 THEN words[1]
    ELSE words[1] \o <<" ">> \o Join(Tail(words))

Range(f) == {f[i] : i \in DOMAIN f}

\* the literals of the source
S_dkim == <<"d", "k", "i", "m", "=">>
S_pass == <<"p", "a", "s", "s">>
S_header_d == <<"h", "e", "a", "d", "e", "r", ".", "d", "=">>
S_header_i == <<"h", "e", "a", "d", "e", "r", ".", "i", "=", "@">>
invalidAuthservId ==
    <<"i", "n", "v", "a", "l", "i", "d", "A", "u", "t", "h", "s", "e", "r", "v", "I", "d">>

Passed == "Passed"
Failed == "Failed"
Nothing == "Nothing"

(***************************************************************************)
(* Parsing of the Authentication-Results header.                           *)
(***************************************************************************)
\* Regex \([\s\S]*?\) replaced by " ": leftmost "(", shortest match up to the
\* next ")", then on from behind the match.
RECURSIVE remove_comments(_)
remove_comments(header) ==
    LET i == IndexOf(header, "(", 1)
        j == IF i = 0 THEN 0 ELSE IndexOf(header, ")", i + 1)
    IN  IF j = 0 THEN header
        ELSE SubSeq(header, 1, i - 1) \o <<" ">>
             \o remove_comments(SubSeq(header, j + 1, Len(header)))

\* slip: dkim=pass taken as it stands, the signing domain not compared
parse_one_authres_header_any_pass(header_value, from_domain) ==
    LET at == Find(header_value, S_dkim, 1)
    IN  IF at = 0 THEN Nothing
        ELSE LET dkim_parts ==
                     split_whitespace(SplitFirst(
                         SubSeq(header_value, at + Len(S_dkim), Len(header_value)), ";"))
             IN  IF dkim_parts # <<>> /\ dkim_parts[1] = S_pass THEN Passed ELSE Failed

parse_one_authres_header(header_value, from_domain) ==
    LET at == Find(header_value, S_dkim, 1)
    IN  IF at = 0 THEN Nothing
        ELSE LET dkim_to_end == SubSeq(header_value, at + Len(S_dkim), Len(header_value))
                 dkim_part == SplitFirst(dkim_to_end, ";")
                 dkim_parts == split_whitespace(dkim_part)
                 header_d == S_header_d \o from_domain
                 header_i == S_header_i \o from_domain
             IN  IF dkim_parts # <<>> /\ dkim_parts[1] = S_pass
                 THEN IF header_d \in Range(dkim_parts) \/ header_i \in Range(dkim_parts)
                      THEN Passed
                      ELSE Nothing
                 ELSE Failed

\* the authserv-id of one (comment-free) header value
authserv_id_of(header_value) ==
    LET authserv_id == SplitFirst(header_value, ";")
    IN  IF (\E i \in DOMAIN authserv_id : IsWhitespace(authserv_id[i])) \/ authserv_id = <<>>
        THEN invalidAuthservId
        ELSE authserv_id

RECURSIVE parse_authres_headers(_, _)
parse_authres_headers(headers, from_domain) ==
    IF headers = <<>> THEN <<>>
    ELSE LET header_value == remove_comments(Head(headers))
         IN  <<[id |-> authserv_id_of(header_value),
                dkim |-> parse_one_authres_header(header_value, from_domain)]>>
             \o parse_authres_headers(Tail(headers), from_domain)

(***************************************************************************)
(* The store: the authservid_candidates config value and the               *)
(* sending_domains table.                                                  *)
(***************************************************************************)
parse_authservid_candidates_config(cfg) ==
    IF cfg = None THEN {} ELSE Range(split_whitespace(cfg[1]))

\* slip: the row is never found
dkim_works_never(rows, from_domain) == FALSE

\* SELECT dkim_works FROM sending_domains WHERE domain=?; unwrap_or(false)
dkim_works(rows, from_domain) ==
    \E r \in rows : r.domain = from_domain /\ r.dkim_works = 1

\* INSERT ... VALUES (?1,1) ON CONFLICT(domain) DO UPDATE SET dkim_works=1
set_dkim_works(rows, from_domain) ==
    {r \in rows : r.domain # from_domain} \cup {[domain |-> from_domain, dkim_works |-> 1]}

\* slip: nothing is deleted
clear_dkim_works_noop(rows) == rows

\* DELETE FROM sending_domains
clear_dkim_works(rows) == {}

\* the orders in which a HashSet may hand out its elements
Orders(S) == {o \in [1..Cardinality(S) -> S] : Range(o) = S}

\* slip: the incoming ids replace the stored ones, no intersection taken
update_authservid_candidates_no_intersection(authres, store) ==
    LET ids == {authres[i].id : i \in DOMAIN authres}
        old_ids == parse_authservid_candidates_config(store.config)
    IN  IF ids = {} THEN {store}
        ELSE IF old_ids # ids
             THEN {[config |-> Some(Join(o)), sending_domains |-> {}] : o \in Orders(ids)}
             ELSE {store}

\* slip: no early return for a message without authentication results
update_authservid_candidates_no_early_return(authres, store) ==
    LET ids == {authres[i].id : i \in DOMAIN authres}
        old_ids == parse_authservid_candidates_config(store.config)
        intersection == old_ids \cap ids
        new_ids == IF intersection # {} THEN intersection ELSE ids
    IN  IF old_ids # new_ids
        THEN {[config |-> Some(Join(o)), sending_domains |-> {}] : o \in Orders(new_ids)}
        ELSE {store}

\* slip: an empty intersection is stored as it is, the incoming ids are
\* not taken instead
update_authservid_candidates_keeps_empty(authres, store) ==
    LET ids == {authres[i].id : i \in DOMAIN authres}
        old_ids == parse_authservid_candidates_config(store.config)
        new_ids == old_ids \cap ids
    IN  IF ids = {} THEN {store}
        ELSE IF old_ids # new_ids
             THEN {[config |-> Some(Join(o)),
                    sending_domains |-> clear_dkim_works(store.sending_domains)] :
                       o \in Orders(new_ids)}
             ELSE {store}

(***************************************************************************)
(* update_authservid_candidates: the stores it may leave (one per order    *)
(* in which the HashSet is joined).                                        *)
(***************************************************************************)
update_authservid_candidates(authres, store) ==
    LET ids == {authres[i].id : i \in DOMAIN authres}
        old_ids == parse_authservid_candidates_config(store.config)
        intersection == old_ids \cap ids
        new_ids == IF intersection # {} THEN intersection ELSE ids
    IN  IF ids = {} THEN {store}
        ELSE IF old_ids # new_ids
             THEN {[config |-> Some(Join(o)),
                    sending_domains |-> clear_dkim_works(store.sending_domains)] :
                       o \in Orders(new_ids)}
             ELSE {store}

(***************************************************************************)
(* should_allow_keychange                                                  *)
(***************************************************************************)
\* slip: the loop does not break, the last Passed or Failed decides
RECURSIVE first_verdict_no_break(_)
first_verdict_no_break(authres) ==
    IF authres = <<>> THEN FALSE
    ELSE LET last == authres[Len(authres)]
         IN  IF last.dkim = Passed THEN TRUE
             ELSE IF last.dkim = Failed THEN FALSE
             ELSE first_verdict_no_break(SubSeq(authres, 1, Len(authres) - 1))

\* the for loop over the retained results: the first Passed or Failed decides
RECURSIVE first_verdict(_)
first_verdict(authres) ==
    IF authres = <<>> THEN FALSE
    ELSE IF Head(authres).dkim = Passed THEN TRUE
    ELSE IF Head(authres).dkim = Failed THEN FALSE
    ELSE first_verdict(Tail(authres))

\* slip: foreign results are not removed
retain_all(authres, ids) == authres

\* authres.retain(|(authserv_id, _)| ids.contains(authserv_id))
retain(authres, ids) == SelectSeq(authres, LAMBDA e : e.id \in ids)

dkim_decision(authres, cfg) ==
    LET ids == parse_authservid_candidates_config(cfg)
        kept == retain(authres, ids)
    IN  IF kept = <<>> THEN TRUE ELSE first_verdict(kept)

\* slip: the verdict is dkim_passed || dkim_works
should_allow_keychange_flag_not_negated(authres, from_domain, store) ==
    LET dkim_passed == dkim_decision(authres, store.config)
        works == dkim_works(store.sending_domains, from_domain)
    IN  [ret |-> Ok(dkim_passed \/ works),
         store |-> [config |-> store.config,
                    sending_domains |->
                        IF ~works /\ dkim_passed
                        THEN set_dkim_works(store.sending_domains, from_domain)
                        ELSE store.sending_domains],
         dkim_passed |-> dkim_passed,
         dkim_works |-> works]

should_allow_keychange(authres, from_domain, store) ==
    LET dkim_passed == dkim_decision(authres, store.config)
        works == dkim_works(store.sending_domains, from_domain)
    IN  [ret |-> Ok(dkim_passed \/ ~works),
         store |-> [config |-> store.config,
                    sending_domains |->
                        IF ~works /\ dkim_passed
                        THEN set_dkim_works(store.sending_domains, from_domain)
                        ELSE store.sending_domains],
         dkim_passed |-> dkim_passed,
         dkim_works |-> works]

(***************************************************************************)
(* handle_authres                                                          *)
(***************************************************************************)
\* EmailAddress::new(from).domain: the text after the last "@"; an address
\* without "@", or with nothing before or after it, does not parse.
RECURSIVE LastIndexOf(_, _, _)
LastIndexOf(s, c, from) ==
    IF from < 1 THEN 0
    ELSE IF s[from] = c THEN from
    ELSE LastIndexOf(s, c, from - 1)

EmailAddress_new(from) ==
    LET at == LastIndexOf(from, "@", Len(from))
    IN  IF at <= 1 \/ at = Len(from) THEN None
        ELSE Some(SubSeq(from, at + 1, Len(from)))

NoLocals ==
    [from_domain |-> None, authres |-> <<>>, mid |-> None,
     dkim_passed |-> FALSE, dkim_works |-> FALSE]

\* slip: an address that does not parse is used as the domain
handle_authres_invalid_from_used(m, store) ==
    LET email == EmailAddress_new(m.from)
        from_domain == IF email = None THEN m.from ELSE email[1]
        authres == parse_authres_headers(m.headers, from_domain)
    IN  {LET r == should_allow_keychange(authres, from_domain, mid)
         IN  [ret |-> r.ret, store |-> r.store,
              locals |-> [from_domain |-> Some(from_domain),
                          authres |-> authres,
                          mid |-> Some(mid),
                          dkim_passed |-> r.dkim_passed,
                          dkim_works |-> r.dkim_works]] :
            mid \in update_authservid_candidates(authres, store)}

\* the outcomes handle_authres may have on `store`: what it returns, the
\* store it leaves, and its locals
handle_authres(m, store) ==
    LET email == EmailAddress_new(m.from)
    IN  IF email = None
        THEN {[ret |-> Ok(FALSE), store |-> store, locals |-> NoLocals]}
        ELSE LET from_domain == email[1]
                 authres == parse_authres_headers(m.headers, from_domain)
             IN  {LET r == should_allow_keychange(authres, from_domain, mid)
                  IN  [ret |-> r.ret, store |-> r.store,
                       locals |-> [from_domain |-> Some(from_domain),
                                   authres |-> authres,
                                   mid |-> Some(mid),
                                   dkim_passed |-> r.dkim_passed,
                                   dkim_works |-> r.dkim_works]] :
                     mid \in update_authservid_candidates(authres, store)}

(***************************************************************************)
(* Inbound messages of the gate's specification.                           *)
(***************************************************************************)
S_fail == <<"f", "a", "i", "l">>
idA == <<"a">>
idB == <<"b">>
domX == <<"x">>
domY == <<"y">>

HeaderValues ==
    { idA \o <<";">> \o S_dkim \o S_pass \o <<" ">> \o S_header_d \o domX,
      idA \o <<";">> \o S_dkim \o S_fail,
      idA \o <<";">>,
      idB \o <<";", " ">> \o S_dkim \o S_pass \o <<" ">> \o S_header_i \o domX,
      idB \o <<";">> \o S_dkim \o S_fail,
      <<";">> \o S_dkim \o S_pass \o <<" ">> \o S_header_d \o domY }

Froms == { <<"u", "@">> \o domX, <<"v", "@">> \o domY, domX }

SeqsUpTo(S, n) == UNION {[1..k -> S] : k \in 0..n}

Mails == [from : Froms, headers : SeqsUpTo(HeaderValues, MaxHeaders)]

NoMail == [from |-> <<>>, headers |-> <<>>]
NoRet == [tag |-> "NotReturned"]
NoStore == None

(***************************************************************************)
(* Parser harness: one header value built from pieces.                     *)
(***************************************************************************)
Pieces ==
    { idA, <<";">>, <<" ">>, <<"(">>, <<")">>, S_dkim, S_dkim \o S_pass, S_pass,
      <<" ">> \o S_header_d \o domX, <<" ">> \o S_header_i \o domY }

RECURSIVE Flatten(_)
Flatten(ps) == IF ps = <<>> THEN <<>> ELSE Head(ps) \o Flatten(Tail(ps))

\* one header value of up to MaxPieces pieces, or up to MaxHeaders of the
\* header values of the gate's messages
ParseInputs ==
    {<<Flatten(ps)>> : ps \in SeqsUpTo(Pieces, MaxPieces)}
        \cup SeqsUpTo(HeaderValues, MaxHeaders)
ParseDomains == {domX, domY}

(***************************************************************************)
(* Specification of the gate: messages arrive and are handled one by one.  *)
(***************************************************************************)
AuthresInit ==
    /\ config = None
    /\ sending_domains = {}
    /\ pc = "idle"
    /\ mail = NoMail
    /\ ret = NoRet
    /\ old = NoStore
    /\ locals = NoLocals
    /\ LoopOff
    /\ CodecOff
    /\ FoldersOff
    /\ IdleOff
    /\ GateOff
    /\ hdrs = <<>>
    /\ fdom = domX
    /\ parsed = <<>>
    /\ ppc = "off"
    /\ SmtpOff
    /\ SchedOff

\* a message is fetched and handed to the ingestion
Receive(m) ==
    /\ pc = "idle"
    /\ pc' = "received"
    /\ mail' = m
    /\ UNCHANGED <<config, sending_domains, ret, old, locals>>
    /\ UNCHANGED parseVars
    /\ UNCHANGED smtpVars
    /\ UNCHANGED schedVars
    /\ UNCHANGED <<loopVars, codecVars, foldersVars, idleVars, gateVars>>

\* the ingestion calls handle_authres(context, mail, from)
HandleAuthres ==
    /\ pc = "received"
    /\ \E o \in handle_authres(mail, [config |-> config, sending_domains |-> sending_domains]) :
          /\ config' = o.store.config
          /\ sending_domains' = o.store.sending_domains
          /\ ret' = o.ret
          /\ locals' = o.locals
    /\ old' = Some([config |-> config, sending_domains |-> sending_domains])
    /\ pc' = "done"
    /\ UNCHANGED mail
    /\ UNCHANGED parseVars
    /\ UNCHANGED smtpVars
    /\ UNCHANGED schedVars
    /\ UNCHANGED <<loopVars, codecVars, foldersVars, idleVars, gateVars>>

\* the ingestion has used the verdict and is ready for the next message
Finish ==
    /\ pc = "done"
    /\ pc' = "idle"
    /\ mail' = NoMail
    /\ ret' = NoRet
    /\ old' = NoStore
    /\ locals' = NoLocals
    /\ UNCHANGED <<config, sending_domains>>
    /\ UNCHANGED parseVars
    /\ UNCHANGED smtpVars
    /\ UNCHANGED schedVars
    /\ UNCHANGED <<loopVars, codecVars, foldersVars, idleVars, gateVars>>

AuthresNext ==
    \/ \E m \in Mails : Receive(m)
    \/ HandleAuthres
    \/ Finish

SpecAuthres == AuthresInit /\ [][AuthresNext]_vars

(***************************************************************************)
(* Vocabulary of the properties.                                           *)
(***************************************************************************)
\* handle_authres has returned for `mail`, whose From address parsed
Handled == pc = "done" /\ locals.from_domain # None
StoreNow == [config |-> config, sending_domains |-> sending_domains]
\* the candidate set stored in a config value
Candidates(cfg) == parse_authservid_candidates_config(cfg)
\* the authserv-ids the handled message came with
IncomingIds == {locals.authres[i].id : i \in DOMAIN locals.authres}
\* the row that says DKIM works for domain d
Flag(d) == [domain |-> d, dkim_works |-> 1]
\* positions of the results whose authserv-id is in `ids`
KeptAt(authres, ids) == {i \in DOMAIN authres : authres[i].id \in ids}
\* the DKIM decision as the specification words it
Decision(authres, ids) ==
    \/ KeptAt(authres, ids) = {}
    \/ \E i \in KeptAt(authres, ids) :
          /\ authres[i].dkim = Passed
          /\ \A j \in KeptAt(authres, ids) : j < i => authres[j].dkim = Nothing
\* some result of `ids` is there, and none of them is Passed
KeptWithoutPass(authres, ids) ==
    /\ KeptAt(authres, ids) # {}
    /\ \A i \in KeptAt(authres, ids) : authres[i].dkim # Passed

(***************************************************************************)
(* C1: after update_authservid_candidates ran with a non-empty set N of    *)
(* incoming authserv-ids on a stored candidate set old, the stored set is  *)
(* old \cap N when that is non-empty and N otherwise; it is a strict       *)
(* superset of old only when the intersection was empty.                   *)
(***************************************************************************)
C1_CandidateUpdate ==
    (Handled /\ IncomingIds # {}) =>
        LET o == Candidates(old[1].config)
            n == Candidates(locals.mid[1].config)
        IN  /\ n = (IF o \cap IncomingIds # {} THEN o \cap IncomingIds ELSE IncomingIds)
            /\ n = Candidates(config)
            /\ (o \subseteq n /\ o # n) => o \cap IncomingIds = {}

\* a message narrowed a two-element candidate set to the one id it came with
C1_Witness ==
    /\ Handled
    /\ Cardinality(Candidates(old[1].config)) = 2
    /\ IncomingIds \cap Candidates(old[1].config) # {}
    /\ ~(Candidates(old[1].config) \subseteq IncomingIds)
    /\ Cardinality(Candidates(config)) = 1

(***************************************************************************)
(* C2 as stated: when handle_authres changed the stored candidate set,     *)
(* sending_domains is empty once the message has been processed.           *)
(***************************************************************************)
C2_Original ==
    (Handled /\ Candidates(config) # Candidates(old[1].config)) => sending_domains = {}

(***************************************************************************)
(* C2 amended: when handle_authres changed the stored candidate set, every *)
(* flag set before the message is gone: the table is empty when            *)
(* update_authservid_candidates returns, and when handle_authres returns   *)
(* it holds at most the flag of the message's own from_domain, which is    *)
(* there exactly when the message's DKIM decision is pass.                 *)
(***************************************************************************)
C2_ClearedButOwnFlag ==
    (Handled /\ Candidates(config) # Candidates(old[1].config)) =>
        /\ locals.mid[1].sending_domains = {}
        /\ sending_domains \subseteq {Flag(locals.from_domain[1])}
        /\ (Flag(locals.from_domain[1]) \in sending_domains
              <=> Decision(locals.authres, Candidates(config)))

\* the candidate set changed, flags of before were dropped and the sender's set
C2_Witness ==
    /\ Handled
    /\ Candidates(config) # Candidates(old[1].config)
    /\ old[1].sending_domains # {}
    /\ sending_domains = {Flag(locals.from_domain[1])}
    /\ Flag(locals.from_domain[1]) \notin old[1].sending_domains

(***************************************************************************)
(* C3: attacker resistance. Whatever message was handled from whatever     *)
(* store, handling it from the same store with a further                   *)
(* Authentication-Results header, put before or behind its own, whose      *)
(* authserv-id is outside the candidate set of that store returns the      *)
(* same allow_keychange verdict.                                           *)
(***************************************************************************)
ForeignHeaders(cfg) ==
    {h \in HeaderValues : authserv_id_of(remove_comments(h)) \notin Candidates(cfg)}

C3_AttackerResistance ==
    Handled =>
        \A h \in ForeignHeaders(old[1].config) :
            \A hs \in {<<h>> \o mail.headers, mail.headers \o <<h>>} :
                \A o \in handle_authres([from |-> mail.from, headers |-> hs], old[1]) :
                    o.ret = ret

\* keychange was refused although a foreign header vouching for the sender
\* could have been added
C3_Witness ==
    /\ Handled
    /\ ret = Ok(FALSE)
    /\ \E h \in ForeignHeaders(old[1].config) :
          parse_authres_headers(<<h>>, locals.from_domain[1])[1].dkim = Passed

(***************************************************************************)
(* C4 as stated: once dkim_works[d] is true, a later message from d whose  *)
(* results, filtered to the candidate set, are non-empty and hold no       *)
(* Passed yields allow_keychange = false. (Read in the claim's favour:     *)
(* the filter is taken with the candidate set of before and of after the   *)
(* message, and both lists are to be non-empty without a Passed.)          *)
(***************************************************************************)
C4_Original ==
    ( /\ Handled
      /\ dkim_works(old[1].sending_domains, locals.from_domain[1])
      /\ KeptWithoutPass(locals.authres, Candidates(old[1].config))
      /\ KeptWithoutPass(locals.authres, Candidates(config)) )
    => ret = Ok(FALSE)

(***************************************************************************)
(* C4 amended: once dkim_works[d] is true it stays true for as long as     *)
(* the stored candidate set does not change, and a later message from d    *)
(* that leaves the candidate set as it is and whose results, filtered to   *)
(* the candidate set, are non-empty and hold no Passed yields              *)
(* allow_keychange = false.                                                *)
(***************************************************************************)
C4_StickyWhilePinned ==
    /\ [](( /\ Handled
            /\ dkim_works(old[1].sending_domains, locals.from_domain[1])
            /\ Candidates(config) = Candidates(old[1].config)
            /\ KeptWithoutPass(locals.authres, Candidates(config)) )
          => ret = Ok(FALSE))
    /\ [][\A d \in {domX, domY} :
            (dkim_works(sending_domains, d) /\ Candidates(config') = Candidates(config))
                => dkim_works(sending_domains', d)]_vars

\* a pinned domain sent a message carrying only a failed result of our server
C4_Witness ==
    /\ Handled
    /\ dkim_works(old[1].sending_domains, locals.from_domain[1])
    /\ Candidates(config) = Candidates(old[1].config)
    /\ KeptWithoutPass(locals.authres, Candidates(config))
    /\ ret = Ok(FALSE)

(***************************************************************************)
(* C5: for a message with a valid From address handle_authres returns      *)
(* dkim_passed OR NOT dkim_works[from_domain], dkim_works being the flag   *)
(* as read before this message may set it, and the flag of from_domain is  *)
(* set by the message exactly when the decision is pass and the flag was   *)
(* not set; no other row changes.                                          *)
(***************************************************************************)
C5_VerdictAndFlag ==
    Handled =>
        LET d == locals.from_domain[1]
            read == Flag(d) \in locals.mid[1].sending_domains
            passed == Decision(locals.authres, Candidates(locals.mid[1].config))
        IN  /\ ret = Ok(passed \/ ~read)
            /\ sending_domains =
                 (IF passed /\ ~read THEN locals.mid[1].sending_domains \cup {Flag(d)}
                                     ELSE locals.mid[1].sending_domains)

\* a message of a domain that is known to pass was refused
C5_Witness ==
    /\ Handled
    /\ Flag(locals.from_domain[1]) \in locals.mid[1].sending_domains
    /\ ~Decision(locals.authres, Candidates(config))
    /\ ret = Ok(FALSE)

(***************************************************************************)
(* C6: idempotence of the candidate update. Once a message has been        *)
(* handled, handling the same message again leaves the stored candidate    *)
(* configuration as it is.                                                 *)
(***************************************************************************)
C6_Idempotent ==
    Handled => \A o \in handle_authres(mail, StoreNow) : o.store.config = config

\* the first handling changed a stored set to one of two ids
C6_Witness ==
    /\ Handled
    /\ old[1].config # None
    /\ config # old[1].config
    /\ Cardinality(Candidates(config)) = 2

C8_InvalidFromNoEffect ==
    (pc = "done" /\ EmailAddress_new(mail.from) = None) =>
        /\ ret = Ok(FALSE)
        /\ config = old[1].config
        /\ sending_domains = old[1].sending_domains

\* the message carried results of an authserv-id the store does not know,
\* and the store had flags
C8_Witness ==
    /\ pc = "done"
    /\ EmailAddress_new(mail.from) = None
    /\ sending_domains # {}
    /\ \E i \in DOMAIN mail.headers :
          authserv_id_of(remove_comments(mail.headers[i])) \notin Candidates(config)

(***************************************************************************)
(* C9: the DKIM decision of should_allow_keychange over the results whose  *)
(* authserv-id is in the current candidate set is pass when there is none, *)
(* else the verdict of the first of them, in header order, that is Passed  *)
(* or Failed, and not pass when all of them are Nothing.                   *)
(***************************************************************************)
C9_Decision ==
    Handled => (locals.dkim_passed <=> Decision(locals.authres, Candidates(config)))

\* a Nothing result of our server came before the deciding one
C9_Witness ==
    /\ Handled
    /\ \E i, j \in KeptAt(locals.authres, Candidates(config)) :
          /\ i < j
          /\ locals.authres[i].dkim = Nothing
          /\ locals.authres[j].dkim = Passed
          /\ \A k \in KeptAt(locals.authres, Candidates(config)) :
                k < j => locals.authres[k].dkim = Nothing
    /\ locals.dkim_passed

(***************************************************************************)
(* Specification of the parser: parse_authres_headers on given headers.    *)
(***************************************************************************)
ParseInit ==
    /\ hdrs \in ParseInputs
    /\ fdom \in ParseDomains
    /\ parsed = <<>>
    /\ ppc = "input"
    /\ config = None
    /\ sending_domains = {}
    /\ pc = "off"
    /\ mail = NoMail
    /\ ret = NoRet
    /\ old = NoStore
    /\ locals = NoLocals
    /\ LoopOff
    /\ CodecOff
    /\ FoldersOff
    /\ IdleOff
    /\ GateOff
    /\ SmtpOff
    /\ SchedOff

ParseHeader ==
    /\ ppc = "input"
    /\ parsed' = parse_authres_headers(hdrs, fdom)
    /\ ppc' = "parsed"
    /\ UNCHANGED <<hdrs, fdom>>
    /\ UNCHANGED authresVars
    /\ UNCHANGED smtpVars
    /\ UNCHANGED schedVars
    /\ UNCHANGED <<loopVars, codecVars, foldersVars, idleVars, gateVars>>

ParseNext == ParseHeader

SpecParse == ParseInit /\ [][ParseNext]_vars

(***************************************************************************)
(* C10: parse_authres_headers yields one (authserv-id, verdict) entry per  *)
(* header, in header order. The verdict is Passed iff the first dkim       *)
(* clause (the text from the first "dkim=" to the next ";") has pass as    *)
(* its first word and header.d=<from_domain> or header.i=@<from_domain>    *)
(* among its words; Nothing if it is pass without them or if there is no   *)
(* dkim clause; Failed otherwise. The authserv-id is the text before the   *)
(* first ";", or invalidAuthservId when that is empty or holds whitespace. *)
(* (Comments are taken out of the value first.)                            *)
(***************************************************************************)
Least(S) == CHOOSE i \in S : \A j \in S : i <= j

ExpectedId(v) ==
    LET semis == {i \in DOMAIN v : v[i] = ";"}
        n == IF semis = {} THEN Len(v) ELSE Least(semis) - 1
    IN  IF n = 0 \/ (\E i \in 1..n : IsWhitespace(v[i]))
        THEN invalidAuthservId
        ELSE [i \in 1..n |-> v[i]]

\* where a word of v[lo..hi] starts, and the word that starts at a
WordStarts(v, lo, hi) ==
    {a \in lo..hi : ~IsWhitespace(v[a]) /\ (a = lo \/ IsWhitespace(v[a - 1]))}
WordAt(v, a, hi) ==
    LET b == Least({e \in a..hi : e = hi \/ IsWhitespace(v[e + 1])})
    IN  [i \in 1..(b - a + 1) |-> v[a + i - 1]]

ExpectedVerdict(v, d) ==
    LET starts == {i \in 1..(Len(v) - 4) : \A k \in 1..5 : v[i + k - 1] = S_dkim[k]}
    IN  IF starts = {} THEN Nothing
        ELSE LET lo == Least(starts) + 5
                 semis == {i \in lo..Len(v) : v[i] = ";"}
                 hi == IF semis = {} THEN Len(v) ELSE Least(semis) - 1
                 ws == WordStarts(v, lo, hi)
                 words == {WordAt(v, a, hi) : a \in ws}
                 pass == ws # {} /\ WordAt(v, Least(ws), hi) = S_pass
                 signed == (S_header_d \o d) \in words \/ (S_header_i \o d) \in words
             IN  IF pass /\ signed THEN Passed
                 ELSE IF pass THEN Nothing
                 ELSE Failed

C10_ParsedEntries ==
    ppc = "parsed" =>
        /\ Len(parsed) = Len(hdrs)
        /\ \A i \in DOMAIN hdrs :
              LET v == remove_comments(hdrs[i])
              IN  /\ parsed[i].id = ExpectedId(v)
                  /\ parsed[i].dkim = ExpectedVerdict(v, fdom)

\* two headers of one authserv-id, only the first signed by the from_domain
C10_Witness ==
    /\ ppc = "parsed"
    /\ Len(parsed) = 2
    /\ parsed[1] = [id |-> idA, dkim |-> Passed]
    /\ parsed[2].dkim = Nothing
    /\ Find(hdrs[2], S_dkim \o S_pass, 1) # 0

\* handle_authres returns in this step for a message that carries at least
\* one Authentication-Results header
HeadersProcessed == pc = "received" /\ pc' = "done" /\ mail.headers # <<>>

\* C39 as stated: once a message carrying at least one
\* Authentication-Results header has been processed, the stored candidate
\* set is non-empty.
C39_Original == [][HeadersProcessed => Candidates(config') # {}]_vars

\* C39, amended: once handle_authres has processed a message that has a From
\* address that parses and carries at least one Authentication-Results
\* header, the stored candidate set is non-empty, and no later message
\* empties or deletes a non-empty candidate set; a message whose From address
\* does not parse leaves the candidate set as it is, unset if it was unset.
C39_NonEmptyOnceSeen ==
    /\ [][(HeadersProcessed /\ EmailAddress_new(mail.from) # None)
              => Candidates(config') # {}]_vars
    /\ [][Candidates(config) # {} => Candidates(config') # {}]_vars
    /\ [][(HeadersProcessed /\ EmailAddress_new(mail.from) = None)
              => config' = config]_vars

\* a message whose authserv-ids are all foreign to a stored candidate set
\* has been handled: the set was replaced, not emptied
C39_Witness ==
    /\ Handled
    /\ Candidates(old[1].config) # {}
    /\ IncomingIds # {}
    /\ Candidates(old[1].config) \cap IncomingIds = {}
    /\ Candidates(config) = IncomingIds

(***************************************************************************)
(* The SMTP loop of src/src/scheduler.rs: send, rate limit, fake idle.     *)
(*                                                                         *)
(* `timeout` is a u64.  It is kept as four 16-bit limbs, least significant *)
(* first, so that saturating_mul is computed at the width of the code.     *)
(***************************************************************************)
MaxFails == 41

Limbs == 4
LimbBase == 256 * 256
InitialTimeout == 30
BackoffFactor == 3
ChannelCap == 1

u64_from(n) == [i \in 1..Limbs |-> IF i = 1 THEN n % LimbBase
                                    ELSE IF i = 2 THEN n \div LimbBase ELSE 0]
u64_MAX == [i \in 1..Limbs |-> LimbBase - 1]

\* x * m + carry on limbs; the result has one limb more than x exactly when
\* the product does not fit into the limbs of x
RECURSIVE MulWide(_, _, _)
MulWide(x, m, carry) ==
    IF x = <<>>
    THEN IF carry = 0 THEN <<>> ELSE <<carry>>
    ELSE LET v == Head(x) * m + carry
         IN  <<v % LimbBase>> \o MulWide(Tail(x), m, v \div LimbBase)

\* u64::saturating_mul
saturating_mul(x, m) ==
    LET w == MulWide(x, m, 0)
    IN  IF Len(w) > Limbs THEN u64_MAX ELSE w

\* timeout.map_or(30, |timeout: u64| timeout.saturating_mul(3))
next_timeout(t) ==
    IF t = None THEN u64_from(InitialTimeout)
    ELSE saturating_mul(t[1], BackoffFactor)

InterruptInfo(b) == [probe_network |-> b]
Infos == {InterruptInfo(TRUE), InterruptInfo(FALSE)}

\* a slot whose pending value is replaced by the new one
try_send_overwrite(chan, v) == <<v>>

\* a channel without capacity limit
try_send_unbounded(chan, v) == Append(chan, v)

\* Sender::try_send(v).ok() on a channel::bounded(1): a full channel keeps
\* what it holds and the new value is dropped
try_send(chan, v) == IF Len(chan) < ChannelCap THEN Append(chan, v) ELSE chan

\* a wait whose timer is polled before the receive: a pending signal does
\* not end a timed wait
recv_or_timer_timer_first(chan, timed) ==
    IF timed THEN {"timer"} ELSE IF chan # <<>> THEN {"interrupt"} ELSE {}

\* what ends `idle_interrupt_receiver.recv()`, under tokio::time::timeout
\* when `timed`: timeout polls the receive first, so a pending signal ends
\* the wait; with nothing pending only the timer can
recv_or_timer(chan, timed) ==
    IF chan # <<>> THEN {"interrupt"} ELSE IF timed THEN {"timer"} ELSE {}

Waits == {"ratelimit_wait", "idle_wait"}

SmtpInit ==
    /\ timeout = None
    /\ smtp_pc = "send"
    /\ smtp_chan = <<>>
    /\ fails = 0
    /\ last_send = "none"
    /\ woke = "none"
    /\ config = None
    /\ sending_domains = {}
    /\ pc = "off"
    /\ mail = NoMail
    /\ ret = NoRet
    /\ old = NoStore
    /\ locals = NoLocals
    /\ LoopOff
    /\ CodecOff
    /\ FoldersOff
    /\ IdleOff
    /\ GateOff
    /\ hdrs = <<>>
    /\ fdom = domX
    /\ parsed = <<>>
    /\ ppc = "off"
    /\ SchedOff

\* what no step of smtp_loop touches
notSmtpVars == <<authresVars, parseVars, schedVars, loopVars, codecVars,
    foldersVars, idleVars, gateVars>>

\* send_smtp_messages returned Err
SendFails ==
    /\ smtp_pc = "send"
    /\ fails < MaxFails
    /\ timeout' = Some(next_timeout(timeout))
    /\ fails' = fails + 1
    /\ last_send' = "err"
    /\ smtp_pc' = "idle_wait"
    /\ UNCHANGED <<smtp_chan, woke>>
    /\ UNCHANGED notSmtpVars

\* send_smtp_messages returned Ok; `limited` is !until_can_send().is_zero()
SendSucceeds(limited) ==
    /\ smtp_pc = "send"
    /\ fails' = 0
    /\ last_send' = "ok"
    /\ IF limited
       THEN /\ smtp_pc' = "ratelimit_wait"
            /\ UNCHANGED timeout
       ELSE /\ smtp_pc' = "idle_wait"
            /\ timeout' = None
    /\ UNCHANGED <<smtp_chan, woke>>
    /\ UNCHANGED notSmtpVars

\* the rate-limit wait ends and the loop continues with the next send
RatelimitWait ==
    /\ smtp_pc = "ratelimit_wait"
    /\ \E w \in recv_or_timer(smtp_chan, TRUE) :
          /\ woke' = w
          /\ smtp_chan' = IF w = "interrupt" THEN Tail(smtp_chan) ELSE smtp_chan
    /\ smtp_pc' = "send"
    /\ UNCHANGED <<timeout, fails, last_send>>
    /\ UNCHANGED notSmtpVars

\* the fake idle ends: by the interrupt, or by the retry timer if one is set
IdleWait ==
    /\ smtp_pc = "idle_wait"
    /\ \E w \in recv_or_timer(smtp_chan, timeout # None) :
          /\ woke' = w
          /\ smtp_chan' = IF w = "interrupt" THEN Tail(smtp_chan) ELSE smtp_chan
    /\ smtp_pc' = "send"
    /\ UNCHANGED <<timeout, fails, last_send>>
    /\ UNCHANGED notSmtpVars

\* SmtpConnectionState::interrupt(info), called by any task
InterruptSmtp(info) ==
    /\ smtp_pc # "off"
    /\ smtp_chan' = try_send(smtp_chan, info)
    /\ UNCHANGED <<timeout, smtp_pc, fails, last_send, woke>>
    /\ UNCHANGED notSmtpVars

SmtpNext ==
    \/ SendFails
    \/ \E l \in BOOLEAN : SendSucceeds(l)
    \/ RatelimitWait
    \/ IdleWait
    \/ \E i \in Infos : InterruptSmtp(i)

SpecSmtp == SmtpInit /\ [][SmtpNext]_vars

\* the runtime polls a task whose wait can end: a wait that can return does
FairSpecSmtp ==
    /\ SmtpInit
    /\ [][SmtpNext]_vars
    /\ WF_vars(RatelimitWait)
    /\ WF_vars(IdleWait)

(***************************************************************************)
(* Properties of the SMTP loop.                                            *)
(***************************************************************************)
\* 30 * 3^(k-1) at unbounded width, for k >= 1
RECURSIVE Backoff(_)
Backoff(k) ==
    IF k = 1 THEN u64_from(InitialTimeout)
    ELSE MulWide(Backoff(k - 1), BackoffFactor, 0)

\* min(u64::MAX, 30 * 3^(k-1))
ExpectedTimeout(k) == IF Len(Backoff(k)) > Limbs THEN u64_MAX ELSE Backoff(k)

\* the signal pending in the channel leaves it in this step
SignalTaken == smtp_chan # <<>> /\ smtp_chan' # smtp_chan

\* the loop returns from the wait it is at
WaitReturns == smtp_pc \in Waits /\ smtp_pc' = "send"

\* C11: an interrupt that is pending when the SMTP worker makes its next
\* wait attempt ends that wait at once: the wait returns by the signal, not
\* by its timer.  A pending signal leaves the channel only by such a return,
\* so no interleaving of interrupt and entering the wait loses it, and a
\* worker that is at a wait with a signal pending does return from it.
C11_InterruptObserved ==
    /\ [][(WaitReturns /\ smtp_chan # <<>>) =>
              (woke' = "interrupt" /\ smtp_chan' = <<>>)]_vars
    /\ [][SignalTaken => (WaitReturns /\ woke' = "interrupt")]_vars
    /\ ((smtp_pc \in Waits /\ smtp_chan # <<>>) ~> (smtp_pc = "send"))

\* a timed fake idle was ended by an interrupt
C11_Witness ==
    /\ smtp_pc = "send"
    /\ woke = "interrupt"
    /\ last_send = "err"
    /\ timeout # None
    /\ smtp_chan = <<>>

\* C19: after k >= 1 consecutive failures of send_smtp_messages the retry
\* timeout is min(u64::MAX, 30 * 3^(k-1)) seconds.
C19_Original ==
    (last_send = "err") => (timeout = Some(ExpectedTimeout(fails)))

\* C20: after a successful send_smtp_messages call the retry timeout is unset.
C20_Original ==
    (last_send = "ok") => (timeout = None)

(***************************************************************************)
(* The scheduler of src/src/scheduler.rs: start, the worker tasks, the     *)
(* interrupt broadcasts and stop.                                          *)
(***************************************************************************)
Workers == {"inbox", "mvbox", "sentbox", "smtp"}
AuxChans == {"ephemeral", "location"}
Live == {"spawned", "working", "idle"}

\* Scheduler::boxes(): the inbox, then the optional boxes
boxes_inbox_only(w) == IF w = <<>> THEN <<>> ELSE <<Head(w)>>
boxes(w) == w

\* the workers in the order in which stop handles them: boxes, then SMTP
StopOrder(w) == w \o <<"smtp">>

\* ConnectionState::interrupt on a channel whose receiver is alive or gone
interrupt(chan, alive, info) == IF alive THEN try_send(chan, info) ELSE chan

\* the signal a receive takes out of a channel
recv(chan) == Head(chan)

NoStop == [phase |-> "none", i |-> 0]

SchedInit ==
    /\ scheduler = "none"
    /\ start_pc = "none"
    /\ stop_pc = NoStop
    /\ watched = <<>>
    /\ task = [w \in Workers |-> "none"]
    /\ started = {}
    /\ stop_chan = [w \in Workers |-> "empty"]
    /\ intr = [w \in Workers |-> <<>>]
    /\ last_info = None
    /\ aux = "none"
    /\ aux_chan = [a \in AuxChans |-> <<>>]
    /\ stop_sent = {}
    /\ awaited = {}
    /\ detached = {}
    /\ stop_errs = {}
    /\ config = None
    /\ sending_domains = {}
    /\ pc = "off"
    /\ mail = NoMail
    /\ ret = NoRet
    /\ old = NoStore
    /\ locals = NoLocals
    /\ LoopOff
    /\ CodecOff
    /\ FoldersOff
    /\ IdleOff
    /\ GateOff
    /\ hdrs = <<>>
    /\ fdom = domX
    /\ parsed = <<>>
    /\ ppc = "off"
    /\ SmtpOff

\* what no step of the scheduler touches
notSchedVars == <<authresVars, parseVars, smtpVars, loopVars, codecVars,
    foldersVars, idleVars, gateVars>>

stopVars == <<stop_pc, stop_sent, awaited, detached, stop_errs>>
chanVars == <<intr, last_info, aux_chan>>

\* the workers spawned so far by the running start
Spawned == {w \in Workers : task[w] # "none"}

\* start returns Err: its locals are dropped, the stop senders with them
StartFails ==
    /\ start_pc' = "err"
    /\ stop_chan' = [w \in Workers |-> IF task[w] # "none" THEN "closed" ELSE stop_chan[w]]

\* Scheduler::start up to the spawn of the inbox loop
StartInbox(conn_ok) ==
    /\ start_pc = "none"
    /\ IF conn_ok
       THEN /\ task' = [task EXCEPT !["inbox"] = "spawned"]
            /\ watched' = <<"inbox">>
            /\ start_pc' = "mvbox"
            /\ UNCHANGED stop_chan
       ELSE /\ StartFails
            /\ UNCHANGED <<task, watched>>
    /\ UNCHANGED <<scheduler, started, aux>>
    /\ UNCHANGED stopVars
    /\ UNCHANGED chanVars
    /\ UNCHANGED notSchedVars

\* one round of the loop over Mvbox and Sent; should_watch is the Result read
\* from the configuration
StartObox(should_watch, conn_ok) ==
    /\ start_pc \in {"mvbox", "sentbox"}
    /\ IF should_watch = "err" \/ (should_watch = "yes" /\ ~conn_ok)
       THEN /\ StartFails
            /\ UNCHANGED <<task, watched>>
       ELSE /\ start_pc' = IF start_pc = "mvbox" THEN "sentbox" ELSE "smtp"
            /\ IF should_watch = "yes"
               THEN /\ task' = [task EXCEPT ![start_pc] = "spawned"]
                    /\ watched' = Append(watched, start_pc)
               ELSE UNCHANGED <<task, watched>>
            /\ UNCHANGED stop_chan
    /\ UNCHANGED <<scheduler, started, aux>>
    /\ UNCHANGED stopVars
    /\ UNCHANGED chanVars
    /\ UNCHANGED notSchedVars

\* the SMTP loop and the three auxiliary tasks are spawned
StartSmtp ==
    /\ start_pc = "smtp"
    /\ task' = [task EXCEPT !["smtp"] = "spawned"]
    /\ aux' = "running"
    /\ start_pc' = "join"
    /\ UNCHANGED <<scheduler, watched, started, stop_chan>>
    /\ UNCHANGED stopVars
    /\ UNCHANGED chanVars
    /\ UNCHANGED notSchedVars

\* a join that is content with the signal of the inbox loop
try_join_all_first(sp, st, fin) ==
    IF "inbox" \in st THEN "Ok"
    ELSE IF "inbox" \in fin THEN "Err"
    ELSE "Pending"

\* try_join_all over the started receivers of the workers sp, of which st
\* have sent and fin have ended: Ok when every signal is there, Err as
\* soon as one sender is gone without having sent
try_join_all(sp, st, fin) ==
    IF sp \subseteq st THEN "Ok"
    ELSE IF (sp \ st) \cap fin # {} THEN "Err"
    ELSE "Pending"

\* the await of try_join_all completes, and start returns
StartJoin ==
    /\ start_pc = "join"
    /\ LET res == try_join_all(Spawned, started, {w \in Workers : task[w] = "finished"})
       IN  /\ res # "Pending"
           /\ IF res = "Ok"
              THEN /\ start_pc' = "ok"
                   /\ UNCHANGED stop_chan
              ELSE StartFails
    /\ UNCHANGED <<scheduler, watched, task, started, aux>>
    /\ UNCHANGED stopVars
    /\ UNCHANGED chanVars
    /\ UNCHANGED notSchedVars

\* the caller of start installs the scheduler into the context
InstallScheduler ==
    /\ start_pc = "ok"
    /\ scheduler' = "some"
    /\ start_pc' = "done"
    /\ UNCHANGED <<watched, task, started, stop_chan, aux>>
    /\ UNCHANGED stopVars
    /\ UNCHANGED chanVars
    /\ UNCHANGED notSchedVars

\* the start receivers live while start runs
StartReceiving == start_pc \in {"mvbox", "sentbox", "smtp", "join"}

\* a loop's future is polled for the first time: started.send(())
WorkerStarted(w) ==
    /\ task[w] = "spawned"
    /\ stop_chan[w] = "empty"
    /\ IF StartReceiving
       THEN /\ started' = started \cup {w}
            /\ task' = [task EXCEPT ![w] = "working"]
       ELSE /\ task' = [task EXCEPT ![w] = "finished"]
            /\ UNCHANGED started
    /\ UNCHANGED <<scheduler, start_pc, watched, stop_chan, aux>>
    /\ UNCHANGED stopVars
    /\ UNCHANGED chanVars
    /\ UNCHANGED notSchedVars

\* a worker finishes its work and enters its idle wait
WorkerIdles(w) ==
    /\ task[w] = "working"
    /\ stop_chan[w] = "empty"
    /\ task' = [task EXCEPT ![w] = "idle"]
    /\ UNCHANGED <<scheduler, start_pc, watched, started, stop_chan, aux>>
    /\ UNCHANGED stopVars
    /\ UNCHANGED chanVars
    /\ UNCHANGED notSchedVars

\* the idle wait of a worker ends: by the pending interrupt, or with
\* nothing pending by the server or a timer
WorkerWakes(w) ==
    /\ task[w] = "idle"
    /\ stop_chan[w] = "empty"
    /\ task' = [task EXCEPT ![w] = "working"]
    /\ intr' = [intr EXCEPT ![w] = IF intr[w] # <<>> THEN Tail(intr[w]) ELSE intr[w]]
    /\ UNCHANGED <<scheduler, start_pc, watched, started, stop_chan, aux>>
    /\ UNCHANGED <<last_info, aux_chan>>
    /\ UNCHANGED stopVars
    /\ UNCHANGED notSchedVars

\* the race of a loop is won by stop_receiver.recv(): a stop signal, or the
\* channel closed because its sender was dropped
WorkerStops(w) ==
    /\ task[w] \in Live
    /\ stop_chan[w] \in {"full", "closed"}
    /\ task' = [task EXCEPT ![w] = "finished"]
    /\ intr' = [intr EXCEPT ![w] = <<>>]
    /\ UNCHANGED <<scheduler, start_pc, watched, started, stop_chan, aux>>
    /\ UNCHANGED <<last_info, aux_chan>>
    /\ UNCHANGED stopVars
    /\ UNCHANGED notSchedVars

\* a worker task ends by a panic of its future: its receivers are dropped
WorkerPanics(w) ==
    /\ task[w] \in {"spawned", "working"}
    /\ task' = [task EXCEPT ![w] = "finished"]
    /\ intr' = [intr EXCEPT ![w] = <<>>]
    /\ UNCHANGED <<scheduler, start_pc, watched, started, stop_chan, aux>>
    /\ UNCHANGED <<last_info, aux_chan>>
    /\ UNCHANGED stopVars
    /\ UNCHANGED notSchedVars

\* Scheduler::maybe_network / maybe_network_lost: interrupt every box, then
\* SMTP, with InterruptInfo::new(probe)
broadcast(ch, w, alive, probe) ==
    LET targets == Range(StopOrder(boxes(w)))
    IN  [x \in Workers |->
            IF x \in targets THEN interrupt(ch[x], alive[x], InterruptInfo(probe))
            ELSE ch[x]]

\* Scheduler::maybe_network (probe) / Scheduler::maybe_network_lost (~probe)
SchedulerBroadcast(probe) ==
    /\ intr' = broadcast(intr, watched, [w \in Workers |-> task[w] \in Live], probe)
    /\ last_info' = Some(InterruptInfo(probe))

\* Context::maybe_network
MaybeNetwork ==
    /\ start_pc # "off"
    /\ IF scheduler = "some"
       THEN SchedulerBroadcast(TRUE)
       ELSE UNCHANGED <<intr, last_info>>
    /\ UNCHANGED <<scheduler, start_pc, watched, task, started, stop_chan, aux>>
    /\ UNCHANGED aux_chan
    /\ UNCHANGED stopVars
    /\ UNCHANGED notSchedVars

\* Context::maybe_network_lost
MaybeNetworkLost ==
    /\ start_pc # "off"
    /\ IF scheduler = "some"
       THEN SchedulerBroadcast(FALSE)
       ELSE UNCHANGED <<intr, last_info>>
    /\ UNCHANGED <<scheduler, start_pc, watched, task, started, stop_chan, aux>>
    /\ UNCHANGED aux_chan
    /\ UNCHANGED stopVars
    /\ UNCHANGED notSchedVars

\* Context::interrupt_ephemeral_task / Context::interrupt_location
InterruptAux(a) ==
    /\ start_pc # "off"
    /\ IF scheduler = "some"
       THEN aux_chan' = [aux_chan EXCEPT ![a] = try_send(aux_chan[a], "unit")]
       ELSE UNCHANGED aux_chan
    /\ UNCHANGED <<scheduler, start_pc, watched, task, started, stop_chan, aux>>
    /\ UNCHANGED <<intr, last_info>>
    /\ UNCHANGED stopVars
    /\ UNCHANGED notSchedVars

\* the ephemeral or the location loop receives its interrupt
AuxReceives(a) ==
    /\ aux = "running"
    /\ aux_chan[a] # <<>>
    /\ aux_chan' = [aux_chan EXCEPT ![a] = Tail(aux_chan[a])]
    /\ UNCHANGED <<scheduler, start_pc, watched, task, started, stop_chan, aux>>
    /\ UNCHANGED <<intr, last_info>>
    /\ UNCHANGED stopVars
    /\ UNCHANGED notSchedVars

\* the position of stop after the step at position p, with n workers, when
\* every worker is awaited right after its own stop signal
stop_step_interleaved(p, n) ==
    IF p.phase = "send" THEN [phase |-> "join", i |-> p.i]
    ELSE IF p.phase = "join" /\ p.i < n THEN [phase |-> "send", i |-> p.i + 1]
    ELSE [phase |-> "abort", i |-> 0]

\* the position of Scheduler::stop after the step at position p, with n
\* workers: all sends, then all awaits, then the aborts
stop_step(p, n) ==
    IF p.i < n THEN [phase |-> p.phase, i |-> p.i + 1]
    ELSE IF p.phase = "send" THEN [phase |-> "join", i |-> 1]
    ELSE [phase |-> "abort", i |-> 0]

\* Scheduler::stop when a failed ConnectionState::stop is propagated with `?`
after_stop_send_propagated(res, p, n) ==
    IF res = "Err" THEN [phase |-> "failed", i |-> p.i] ELSE stop_step(p, n)

\* `.ok_or_log(context)` on the result of ConnectionState::stop: an Err is
\* logged and stop goes on
after_stop_send(res, p, n) == stop_step(p, n)

\* the scheduler is taken out of the context and Scheduler::stop is called
StopIo ==
    /\ scheduler = "some"
    /\ scheduler' = "none"
    /\ stop_pc' = [phase |-> "send", i |-> 1]
    /\ UNCHANGED <<start_pc, watched, task, started, stop_chan, aux>>
    /\ UNCHANGED <<stop_sent, awaited, detached, stop_errs>>
    /\ UNCHANGED chanVars
    /\ UNCHANGED notSchedVars

\* ConnectionState::stop of the next worker: stop_sender.send(()).await
StopSend ==
    /\ stop_pc.phase = "send"
    /\ LET w == StopOrder(watched)[stop_pc.i]
           res == IF task[w] = "finished" THEN "Err" ELSE "Ok"
       IN  /\ res = "Ok" => stop_chan[w] = "empty"
           /\ stop_chan' = IF res = "Ok" THEN [stop_chan EXCEPT ![w] = "full"] ELSE stop_chan
           /\ stop_errs' = IF res = "Err" THEN stop_errs \cup {w} ELSE stop_errs
           /\ stop_sent' = stop_sent \cup {w}
           /\ stop_pc' = after_stop_send(res, stop_pc, Len(StopOrder(watched)))
    /\ UNCHANGED <<scheduler, start_pc, watched, task, started, aux>>
    /\ UNCHANGED <<awaited, detached>>
    /\ UNCHANGED chanVars
    /\ UNCHANGED notSchedVars

\* tokio::time::timeout(timeout_duration, handle).await of the next worker:
\* the task has finished, or the 30 seconds elapse and the handle is dropped
StopJoin ==
    /\ stop_pc.phase = "join"
    /\ LET w == StopOrder(watched)[stop_pc.i]
       IN  /\ awaited' = awaited \cup {w}
           /\ detached' = IF task[w] = "finished" THEN detached ELSE detached \cup {w}
    /\ stop_pc' = stop_step(stop_pc, Len(StopOrder(watched)))
    /\ UNCHANGED <<scheduler, start_pc, watched, task, started, stop_chan, aux>>
    /\ UNCHANGED <<stop_sent, stop_errs>>
    /\ UNCHANGED chanVars
    /\ UNCHANGED notSchedVars

\* ephemeral_handle.abort(); location_handle.abort();
\* recently_seen_loop.abort(); and stop returns
StopAbort ==
    /\ stop_pc.phase = "abort"
    /\ aux' = "aborted"
    /\ stop_pc' = [phase |-> "returned", i |-> 0]
    /\ UNCHANGED <<scheduler, start_pc, watched, task, started, stop_chan>>
    /\ UNCHANGED <<stop_sent, awaited, detached, stop_errs>>
    /\ UNCHANGED chanVars
    /\ UNCHANGED notSchedVars

SchedNext ==
    \/ \E ok \in BOOLEAN : StartInbox(ok)
    \/ \E sw \in {"yes", "no", "err"}, ok \in BOOLEAN : StartObox(sw, ok)
    \/ StartSmtp
    \/ StartJoin
    \/ InstallScheduler
    \/ \E w \in Workers : WorkerStarted(w)
    \/ \E w \in Workers : WorkerIdles(w)
    \/ \E w \in Workers : WorkerWakes(w)
    \/ \E w \in Workers : WorkerStops(w)
    \/ \E w \in Workers : WorkerPanics(w)
    \/ MaybeNetwork
    \/ MaybeNetworkLost
    \/ StopIo
    \/ StopSend
    \/ StopJoin
    \/ StopAbort

\* start, the workers, the network broadcasts and stop
SpecSched == SchedInit /\ [][SchedNext]_vars

\* stop is a running future: each of its awaits that can complete does, the
\* await of a handle at the latest when its 30 seconds have elapsed
FairSpecSched ==
    /\ SchedInit
    /\ [][SchedNext]_vars
    /\ WF_vars(StopSend)
    /\ WF_vars(StopJoin)
    /\ WF_vars(StopAbort)

(***************************************************************************)
(* The interrupt channels of a running scheduler: the state Scheduler::start *)
(* leaves behind when it returns Ok, for each choice of watched folders,   *)
(* and the calls that interrupt its workers and its auxiliary tasks.       *)
(***************************************************************************)
Watchable == {<<"inbox">>, <<"inbox", "mvbox">>, <<"inbox", "sentbox">>,
              <<"inbox", "mvbox", "sentbox">>}

IntrInit ==
    /\ scheduler = "some"
    /\ start_pc = "done"
    /\ stop_pc = NoStop
    /\ watched \in Watchable
    /\ task = [w \in Workers |-> IF w \in Range(watched) \cup {"smtp"} THEN "working" ELSE "none"]
    /\ started = Range(watched) \cup {"smtp"}
    /\ stop_chan = [w \in Workers |-> "empty"]
    /\ intr = [w \in Workers |-> <<>>]
    /\ last_info = None
    /\ aux = "running"
    /\ aux_chan = [a \in AuxChans |-> <<>>]
    /\ stop_sent = {}
    /\ awaited = {}
    /\ detached = {}
    /\ stop_errs = {}
    /\ config = None
    /\ sending_domains = {}
    /\ pc = "off"
    /\ mail = NoMail
    /\ ret = NoRet
    /\ old = NoStore
    /\ locals = NoLocals
    /\ LoopOff
    /\ CodecOff
    /\ FoldersOff
    /\ IdleOff
    /\ GateOff
    /\ hdrs = <<>>
    /\ fdom = domX
    /\ parsed = <<>>
    /\ ppc = "off"
    /\ SmtpOff

IntrNext ==
    \/ \E w \in Workers : WorkerIdles(w)
    \/ \E w \in Workers : WorkerWakes(w)
    \/ MaybeNetwork
    \/ MaybeNetworkLost
    \/ \E a \in AuxChans : InterruptAux(a)
    \/ \E a \in AuxChans : AuxReceives(a)

SpecIntr == IntrInit /\ [][IntrNext]_vars

\* the states SpecIntr starts in are states of the scheduler after start
IntrInitReached ==
    /\ scheduler = "some"
    /\ watched = <<"inbox", "mvbox", "sentbox">>
    /\ \A w \in Workers : task[w] = "working" /\ intr[w] = <<>>
    /\ last_info = None
    /\ aux = "running"

(***************************************************************************)
(* Properties of the interrupt channels.                                   *)
(*                                                                         *)
(* Every broadcast calls interrupt on every live worker of the scheduler,  *)
(* so last_info is, for each of them, the info of the latest call of       *)
(* interrupt on its connection state.                                      *)
(***************************************************************************)
\* the workers of the scheduler: its boxes and SMTP
SchedWorkers == Range(watched) \cup {"smtp"}

\* C12, as stated: after interrupt(a) and then interrupt(b) with no receive
\* in between, the next receive of the worker yields b, the latest info.
C12_Original ==
    \A w \in Workers :
        intr[w] # <<>> => Some(recv(intr[w])) = last_info

\* C12, amended: a pending signal is never replaced.  After interrupt(a) and
\* then interrupt(b) with no receive in between the slot still holds the
\* one signal that was pending before b, which the next receive yields; b
\* is dropped.
C12_FirstPendingKept ==
    /\ [](\A w \in Workers : Len(intr[w]) <= 1)
    /\ [][\A w \in Workers :
             (intr[w] # <<>> /\ last_info' # last_info) => intr'[w] = intr[w]]_vars
    /\ [][\A w \in Workers :
             (intr[w] # <<>> /\ intr'[w] # intr[w]) => intr'[w] = <<>>]_vars

\* an idle worker is about to receive probe_network = true, pending since
\* interrupt(true), after interrupt(false) was called as well
C12_Witness ==
    \E w \in Workers :
        /\ task[w] = "idle"
        /\ intr[w] = <<InterruptInfo(TRUE)>>
        /\ last_info = Some(InterruptInfo(FALSE))

\* C13: every interrupt channel holds at most one pending signal; whatever
\* is called on a full slot, the slot holds the same signal afterwards; and
\* the calls that interrupt are enabled whatever the channels hold, so that
\* no caller waits for a slot.
C13_NeverBlocksOneSlot ==
    /\ [](\A w \in Workers : Len(intr[w]) <= ChannelCap)
    /\ [](\A a \in AuxChans : Len(aux_chan[a]) <= ChannelCap)
    /\ [][\A w \in Workers :
             (intr[w] # <<>> /\ (MaybeNetwork \/ MaybeNetworkLost)) => intr'[w] = intr[w]]_vars
    /\ [][\A a \in AuxChans :
             (aux_chan[a] # <<>> /\ InterruptAux(a)) => aux_chan'[a] = aux_chan[a]]_vars
    /\ [](scheduler = "some" =>
             /\ ENABLED MaybeNetwork
             /\ ENABLED MaybeNetworkLost
             /\ \A a \in AuxChans : ENABLED InterruptAux(a))

\* a later, different signal was dropped on the full slot of a worker while
\* both auxiliary slots are full as well
C13_Witness ==
    /\ scheduler = "some"
    /\ \A a \in AuxChans : aux_chan[a] # <<>>
    /\ \E w \in Workers :
          /\ intr[w] = <<InterruptInfo(FALSE)>>
          /\ last_info = Some(InterruptInfo(TRUE))

\* what a broadcast of probe leaves behind: every live worker of the
\* scheduler was interrupted with probe, nothing else was touched
Broadcast(probe) ==
    /\ last_info' = Some(InterruptInfo(probe))
    /\ \A w \in Workers :
          IF w \in SchedWorkers /\ task[w] \in Live
          THEN /\ intr[w] = <<>> => intr'[w] = <<InterruptInfo(probe)>>
               /\ intr[w] # <<>> => intr'[w] = intr[w]
          ELSE intr'[w] = intr[w]

\* C18: maybe_network interrupts every worker of the running scheduler
\* (inbox, each watched optional folder, SMTP) with probe_network = true,
\* maybe_network_lost with probe_network = false; with no scheduler in the
\* context neither sends anything.
C18_Broadcast ==
    /\ [][(MaybeNetwork /\ scheduler = "some") => Broadcast(TRUE)]_vars
    /\ [][(MaybeNetworkLost /\ scheduler = "some") => Broadcast(FALSE)]_vars
    /\ [][((MaybeNetwork \/ MaybeNetworkLost) /\ scheduler # "some") =>
              (intr' = intr /\ last_info' = last_info)]_vars
    /\ [][scheduler # "some" => \A w \in Workers : Len(intr'[w]) <= Len(intr[w])]_vars

\* a scheduler with both optional folders, every worker interrupted with
\* probe_network = true
C18_Witness ==
    /\ scheduler = "some"
    /\ SchedWorkers = Workers
    /\ \A w \in Workers : intr[w] = <<InterruptInfo(TRUE)>>

(***************************************************************************)
(* Properties of start and stop.                                           *)
(***************************************************************************)
Stopping == stop_pc.phase \in {"send", "join", "abort"}
Returned == stop_pc.phase = "returned"

\* C14: once called, Scheduler::stop returns, whatever the workers are
\* doing, and no failed stop-send ends it early.
C14_StopReturns ==
    /\ [](stop_pc.phase # "failed")
    /\ (Stopping ~> Returned)

\* stop has returned after a stop-send to a worker that was gone and an
\* await of a worker that did not finish
C14_Witness ==
    /\ Returned
    /\ stop_errs # {}
    /\ detached # {}

\* C15: when Scheduler::stop has returned, no IMAP or SMTP worker task is
\* still running.
C15_Original ==
    Returned => \A w \in SchedWorkers : task[w] = "finished"

\* C16: no worker task is awaited before the stop signal was sent to every
\* worker, and the auxiliary tasks are aborted only after every await has
\* finished, and then always: stop has not returned without the aborts.
C16_StopOrdered ==
    /\ (awaited # {} => stop_sent = SchedWorkers)
    /\ (aux = "aborted" => awaited = SchedWorkers)
    /\ (Returned => aux = "aborted")
    /\ (Stopping => aux = "running")

\* the auxiliary tasks are aborted after one await completed and another
\* timed out
C16_Witness ==
    /\ aux = "aborted"
    /\ detached # {}
    /\ awaited \ detached # {}

\* a Scheduler value exists: start returned it and stop has not used it up
SchedulerExists == start_pc = "ok" \/ scheduler = "some" \/ Stopping

\* every loop was spawned and has sent its started signal
AllSignalled == task["smtp"] # "none" /\ Spawned \subseteq started

\* C17, as stated: in every reachable state a scheduler exists iff all its
\* workers have signalled started.
C17_Original == SchedulerExists <=> AllSignalled

\* C17, amended: a scheduler exists only if every worker loop start spawned
\* has signalled started, and start does not return a scheduler when a loop
\* ended without signalling; the converse does not hold.
C17_StartBarrier ==
    /\ SchedulerExists => AllSignalled
    /\ (\E w \in Spawned : task[w] = "finished" /\ w \notin started) =>
           (~SchedulerExists /\ start_pc # "done")
    /\ start_pc = "err" => (scheduler = "none" /\ stop_pc = NoStop)

\* a scheduler with both optional folders is installed
C17_Witness ==
    /\ scheduler = "some"
    /\ Len(watched) = 3
    /\ Workers \subseteq started

(***************************************************************************)
(* The worker loops: inbox_loop, simple_imap_loop and smtp_loop of         *)
(* src/src/scheduler.rs, one await of the loop per step.  The loop future  *)
(* is raced against the receive on the stop channel; the race polls the    *)
(* receive first, so a step of the loop is taken only while that receive   *)
(* is pending.                                                             *)
(***************************************************************************)
Folders == {"inbox", "mvbox", "sentbox"}

\* what the current iteration of the loop has done so far; steps lists the
\* calls of fetch_idle in the order they were made
NewRound == [fetches |-> 0, scanned |-> "no", synced |-> FALSE, connected |-> FALSE,
             idled |-> "no", reconnect |-> FALSE, failed |-> {}, info |-> None,
             steps |-> <<>>, woke |-> "no"]

\* the stop channel while stop_receiver.recv() is pending: no stop was sent
\* and the sender is alive ("dropping": Scheduler::start is returning Err and
\* has dropped the started receiver, not yet the connection state)
Pending == {"empty", "dropping"}

\* the positions of a loop that has sent its started signal
InLoop == {"top", "seed", "seed_set", "seed_fetch", "download", "get_config", "prepare", "fetch", "scan", "refetch", "sync",
           "idle", "idling", "fake_idle", "smtp_send", "smtp_ratelimit", "smtp_idle"}

\* the positions at which a loop waits for an interrupt or a timer
Idling == {"idling", "fake_idle", "smtp_ratelimit", "smtp_idle"}

\* the first await of an iteration of the loop
LoopHead(meaning) == IF meaning = "smtp" THEN "smtp_send" ELSE "top"

LoopInit ==
    /\ loop_pc = "spawned"
    /\ loop_stop = "empty"
    /\ folder_meaning \in Folders \cup {"smtp"}
    /\ round = NewRound
    /\ connectivity = "none"
    /\ fetched_existing_msgs = FALSE
    /\ download \in SUBSET MsgIds
    /\ seed_attempts = "never"
    /\ config = None
    /\ sending_domains = {}
    /\ pc = "off"
    /\ mail = NoMail
    /\ ret = NoRet
    /\ old = NoStore
    /\ locals = NoLocals
    /\ hdrs = <<>>
    /\ fdom = domX
    /\ parsed = <<>>
    /\ ppc = "off"
    /\ SmtpOff
    /\ SchedOff
    /\ CodecOff
    /\ FoldersOff
    /\ IdleOff
    /\ GateOff

\* what is kept in the store of the context: it outlives the loop
persisted == <<fetched_existing_msgs, download, seed_attempts>>

\* what no step of a folder loop touches
notLoopVars == <<authresVars, parseVars, smtpVars, schedVars, codecVars,
    foldersVars, idleVars, gateVars>>

\* started.send(()).await: Err when the receiver is gone, and the task returns
LoopStarts ==
    /\ loop_pc = "spawned"
    /\ loop_stop \in Pending
    /\ loop_pc' = IF loop_stop = "dropping" THEN "not_started"
                  ELSE LoopHead(folder_meaning)
    /\ UNCHANGED <<loop_stop, folder_meaning, round, connectivity>>
    /\ UNCHANGED <<persisted, notLoopVars>>

\* the head of an iteration: inbox_loop updates the quota, resyncs, warns
\* and does the housekeeping; every failure is logged.  simple_imap_loop
\* calls fetch_idle at once.
LoopTop(failure) ==
    /\ loop_pc = "top"
    /\ loop_stop \in Pending
    /\ failure \in IF folder_meaning = "inbox"
                   THEN {"none", "quota", "resync", "config", "housekeeping"}
                   ELSE {"none"}
    /\ loop_pc' = IF folder_meaning = "inbox" THEN "seed" ELSE "get_config"
    /\ round' = NewRound
    /\ UNCHANGED <<loop_stop, folder_meaning, connectivity>>
    /\ UNCHANGED <<persisted, notLoopVars>>

\* inbox_loop reads Config::FetchedExistingMsgs: Err is logged, Ok(true)
\* goes on to the download, Ok(false) to the write of the flag
SeedCheck(read) ==
    /\ loop_pc = "seed"
    /\ loop_stop \in Pending
    /\ loop_pc' = IF read = "ok" /\ ~fetched_existing_msgs THEN "seed_set"
                  ELSE "download"
    /\ round' = [round EXCEPT !.failed = IF read = "err" THEN @ \cup {"seed_config"}
                                         ELSE @]
    /\ UNCHANGED <<loop_stop, folder_meaning, connectivity>>
    /\ UNCHANGED <<persisted, notLoopVars>>

\* the number of calls of fetch_existing_msgs after one more
OneMore(n) == IF n = "never" THEN "once" ELSE "repeated"

\* set_config_bool(FetchedExistingMsgs, true): Err is logged; then
\* fetch_existing_msgs is called
SeedSet(ok) ==
    /\ loop_pc = "seed_set"
    /\ loop_stop \in Pending
    /\ fetched_existing_msgs' = IF ok THEN TRUE ELSE fetched_existing_msgs
    /\ loop_pc' = "seed_fetch"
    /\ seed_attempts' = OneMore(seed_attempts)
    /\ round' = [round EXCEPT !.failed = IF ok THEN @ ELSE @ \cup {"seed_write"}]
    /\ UNCHANGED <<loop_stop, folder_meaning, connectivity, download>>
    /\ UNCHANGED notLoopVars

\* fetch_existing_msgs returns: Err is logged and triggers a reconnect
FetchExisting(ok) ==
    /\ loop_pc = "seed_fetch"
    /\ loop_stop \in Pending
    /\ loop_pc' = "download"
    /\ round' = IF ok THEN round
                ELSE [round EXCEPT !.reconnect = TRUE,
                                   !.failed = @ \cup {"fetch_existing"}]
    /\ UNCHANGED <<loop_stop, folder_meaning, connectivity>>
    /\ UNCHANGED <<persisted, notLoopVars>>

\* download_msgs: SELECT msg_id FROM download, Ok or Err; the result is
\* dropped by inbox_loop
DownloadMsgs(ok) ==
    /\ loop_pc = "download"
    /\ loop_stop \in Pending
    /\ loop_pc' = "get_config"
    /\ round' = [round EXCEPT !.failed = IF ok THEN @ ELSE @ \cup {"download"}]
    /\ UNCHANGED <<loop_stop, folder_meaning, connectivity>>
    /\ UNCHANGED <<persisted, notLoopVars>>

\* fetch_idle reads the folder's config: Err, Ok(None) or Ok(Some(folder))
GetFolderConfig(folder) ==
    /\ loop_pc = "get_config"
    /\ loop_stop \in Pending
    /\ loop_pc' = IF folder = "set" THEN "prepare" ELSE "fake_idle"
    /\ round' = [round EXCEPT !.failed = IF folder = "err" THEN @ \cup {"config"} ELSE @,
                              !.steps = IF folder = "set" THEN @
                                        ELSE Append(@, "fake_idle")]
    /\ connectivity' = IF folder = "unset" THEN "not_configured" ELSE connectivity
    /\ UNCHANGED <<loop_stop, folder_meaning>>
    /\ UNCHANGED <<persisted, notLoopVars>>

\* connection.prepare, and for the Inbox store_seen_flags_on_imap
Prepare(ok) ==
    /\ loop_pc = "prepare"
    /\ loop_stop \in Pending
    /\ loop_pc' = IF ok THEN "fetch" ELSE "fake_idle"
    /\ round' = IF ok
                THEN [round EXCEPT !.steps = IF folder_meaning = "inbox"
                                             THEN @ \o <<"prepare", "store_seen_flags">>
                                             ELSE Append(@, "prepare")]
                ELSE [round EXCEPT !.reconnect = TRUE, !.failed = @ \cup {"prepare"},
                                   !.steps = @ \o <<"prepare", "fake_idle">>]
    /\ UNCHANGED <<loop_stop, folder_meaning, connectivity>>
    /\ UNCHANGED <<persisted, notLoopVars>>

\* where fetch_idle goes and what it has done after fetch_move_delete failed
on_fetch_err_fake_idle(r, step) ==
    [at |-> "fake_idle",
     round |-> [r EXCEPT !.reconnect = TRUE, !.failed = @ \cup {step}]]

on_fetch_err(r, step) ==
    [at |-> "top",
     round |-> [r EXCEPT !.reconnect = TRUE, !.failed = @ \cup {step},
                         !.info = Some(InterruptInfo(FALSE))]]

\* the calls FetchMoveDelete makes: delete_expired_imap_messages is called
\* after a fetch_move_delete that succeeded
fetch_steps_expire_first(ok) ==
    IF ok THEN <<"delete_expired", "fetch_move_delete">> ELSE <<"fetch_move_delete">>

fetch_steps(ok) ==
    IF ok THEN <<"fetch_move_delete", "delete_expired">> ELSE <<"fetch_move_delete">>

\* the first fetch_move_delete of the watched folder, then
\* delete_expired_imap_messages, whose error is logged
FetchMoveDelete(ok) ==
    /\ loop_pc = "fetch"
    /\ loop_stop \in Pending
    /\ LET r == [round EXCEPT !.fetches = @ + 1, !.steps = @ \o fetch_steps(ok)]
       IN  IF ok
           THEN /\ loop_pc' = IF folder_meaning = "inbox" THEN "scan" ELSE "sync"
                /\ round' = r
           ELSE /\ loop_pc' = on_fetch_err(r, "fetch").at
                /\ round' = on_fetch_err(r, "fetch").round
    /\ UNCHANGED <<loop_stop, folder_meaning, connectivity>>
    /\ UNCHANGED <<persisted, notLoopVars>>

\* where fetch_idle goes after scan_folders returned
after_scan_always_sync(result) == "sync"

after_scan(result) == IF result = "moved" THEN "refetch" ELSE "sync"

\* scan_folders on the Inbox loop: Err, Ok(true) or Ok(false)
ScanFolders(result) ==
    /\ loop_pc = "scan"
    /\ loop_stop \in Pending
    /\ loop_pc' = after_scan(result)
    /\ round' = [round EXCEPT !.scanned = result,
                              !.failed = IF result = "err" THEN @ \cup {"scan"} ELSE @,
                              !.steps = Append(@, "scan_folders")]
    /\ UNCHANGED <<loop_stop, folder_meaning, connectivity>>
    /\ UNCHANGED <<persisted, notLoopVars>>

\* fetch_move_delete after scan_folders reported moved messages
Refetch(ok) ==
    /\ loop_pc = "refetch"
    /\ loop_stop \in Pending
    /\ LET r == [round EXCEPT !.fetches = @ + 1,
                              !.steps = Append(@, "fetch_move_delete_again")]
       IN  IF ok
           THEN /\ loop_pc' = "sync"
                /\ round' = r
           ELSE /\ loop_pc' = on_fetch_err(r, "refetch").at
                /\ round' = on_fetch_err(r, "refetch").round
    /\ UNCHANGED <<loop_stop, folder_meaning, connectivity>>
    /\ UNCHANGED <<persisted, notLoopVars>>

\* sync_seen_flags, whose error is logged, then connectivity.set_connected
SyncSeenFlags(ok) ==
    /\ loop_pc = "sync"
    /\ loop_stop \in Pending
    /\ loop_pc' = "idle"
    /\ round' = [round EXCEPT !.synced = TRUE, !.connected = TRUE,
                              !.failed = IF ok THEN @ ELSE @ \cup {"sync"},
                              !.steps = @ \o <<"sync_seen_flags", "set_connected">>]
    /\ connectivity' = "connected"
    /\ UNCHANGED <<loop_stop, folder_meaning>>
    /\ UNCHANGED <<persisted, notLoopVars>>

\* session.take(): no session or no IDLE support goes to fake idle, else IDLE
EnterIdle(session) ==
    /\ loop_pc = "idle"
    /\ loop_stop \in Pending
    /\ loop_pc' = IF session = "can_idle" THEN "idling" ELSE "fake_idle"
    /\ round' = [round EXCEPT !.idled = IF session = "can_idle" THEN "idle" ELSE @,
                              !.steps = Append(@, IF session = "can_idle" THEN "idle"
                                                  ELSE "fake_idle")]
    /\ UNCHANGED <<loop_stop, folder_meaning, connectivity>>
    /\ UNCHANGED <<persisted, notLoopVars>>

\* session.idle returns: Ok with the info of the interrupt, or Err
IdleReturns(ok, info) ==
    /\ loop_pc = "idling"
    /\ loop_stop \in Pending
    /\ loop_pc' = LoopHead(folder_meaning)
    /\ round' = IF ok THEN [round EXCEPT !.info = Some(info)]
                ELSE [round EXCEPT !.reconnect = TRUE, !.failed = @ \cup {"idle"},
                                   !.info = Some(InterruptInfo(FALSE))]
    /\ UNCHANGED <<loop_stop, folder_meaning, connectivity>>
    /\ UNCHANGED <<persisted, notLoopVars>>

\* connection.fake_idle returns the info it was interrupted with
FakeIdleReturns(info) ==
    /\ loop_pc = "fake_idle"
    /\ loop_stop \in Pending
    /\ loop_pc' = LoopHead(folder_meaning)
    /\ round' = [round EXCEPT !.idled = "fake", !.info = Some(info)]
    /\ UNCHANGED <<loop_stop, folder_meaning, connectivity>>
    /\ UNCHANGED <<persisted, notLoopVars>>

\* the connectivity after send_smtp_messages returned: it is set before the
\* fake idle only, from last_send_error; the rate limit wait skips it
connectivity_after_send_always_set(outcome, c) ==
    IF outcome = "err" THEN "error" ELSE "connected"

connectivity_after_send(outcome, c) ==
    CASE outcome = "err" -> "error"
      [] outcome = "ok" -> "connected"
      [] OTHER -> c

\* smtp_loop: send_smtp_messages returned Err, or Ok while the rate limit
\* asks to wait, or Ok; the rate limit wait starts at once, the fake idle
\* after the connectivity is set
SmtpSends(outcome) ==
    /\ loop_pc = "smtp_send"
    /\ loop_stop \in Pending
    /\ loop_pc' = IF outcome = "limited" THEN "smtp_ratelimit" ELSE "smtp_idle"
    /\ round' = [NewRound EXCEPT
                     !.failed = IF outcome = "err" THEN {"send"} ELSE {},
                     !.idled = IF outcome = "limited" THEN "no" ELSE "fake",
                     !.steps = IF outcome = "limited"
                               THEN <<"send_smtp_messages", "ratelimit_wait">>
                               ELSE <<"send_smtp_messages", "set_connectivity",
                                      "fake_idle">>]
    /\ connectivity' = connectivity_after_send(outcome, connectivity)
    /\ UNCHANGED <<loop_stop, folder_meaning>>
    /\ UNCHANGED <<persisted, notLoopVars>>

\* smtp_loop: the rate limit wait or the fake idle ends, by an interrupt or,
\* when it has a timeout, by its timer: the rate limit wait always has one,
\* the fake idle only after a failed send
SmtpWaitEnds(by, info) ==
    /\ loop_pc \in {"smtp_ratelimit", "smtp_idle"}
    /\ loop_stop \in Pending
    /\ by = "timer" => (loop_pc = "smtp_ratelimit" \/ "send" \in round.failed)
    /\ by = "timer" => info = InterruptInfo(FALSE)
    /\ loop_pc' = LoopHead(folder_meaning)
    /\ round' = [round EXCEPT !.info = Some(info), !.woke = by]
    /\ UNCHANGED <<loop_stop, folder_meaning, connectivity>>
    /\ UNCHANGED <<persisted, notLoopVars>>

\* Scheduler::stop sends the stop signal: ConnectionState::stop
StopSignal ==
    /\ loop_stop = "empty"
    /\ loop_stop' = "full"
    /\ UNCHANGED <<loop_pc, folder_meaning, round, connectivity>>
    /\ UNCHANGED <<persisted, notLoopVars>>

\* Scheduler::start returns Err after it spawned the loop: its locals are
\* dropped in the reverse order of their declaration.  inbox and res are
\* dropped before start_recvs, so the stop sender of the loop goes first;
\* oboxes is dropped after start_recvs, so when the watch of the next folder
\* fails the mvbox loop loses its started receiver before its stop sender.
StartDrops ==
    /\ loop_stop \in Pending
    /\ loop_stop' \in IF loop_stop = "empty" /\ folder_meaning = "mvbox"
                      THEN {"dropping", "closed"}
                      ELSE {"closed"}
    /\ UNCHANGED <<loop_pc, folder_meaning, round, connectivity>>
    /\ UNCHANGED <<persisted, notLoopVars>>

\* whether the race ends the loop: stop_receiver.recv() is ready
stop_wins_on_signal_only(stop) == stop = "full"

stop_wins(stop) == stop \notin Pending

\* where the task is once the race is won by the stop receive: the loop
\* future is dropped at whatever await it is, and the task returns
after_stop_at_idle_only(at) ==
    IF at = "spawned" THEN "not_started"
    ELSE IF at \in Idling THEN "ended" ELSE at

after_stop(at) == IF at = "spawned" THEN "not_started" ELSE "ended"

\* stop_receiver.recv() is ready, with the signal or with Err on a closed
\* channel: the race ends and the loop future is dropped
LoopStops ==
    /\ loop_pc \in InLoop \cup {"spawned"}
    /\ stop_wins(loop_stop)
    /\ loop_pc' = after_stop(loop_pc)
    /\ UNCHANGED <<loop_stop, folder_meaning, round, connectivity>>
    /\ UNCHANGED <<persisted, notLoopVars>>

\* Scheduler::start after the loop of an earlier scheduler ended: a new
\* connection state and a new task on the same store
Restart ==
    /\ loop_pc \in {"ended", "not_started"}
    /\ loop_pc' = "spawned"
    /\ loop_stop' = "empty"
    /\ round' = NewRound
    /\ connectivity' = "none"
    /\ UNCHANGED folder_meaning
    /\ UNCHANGED <<persisted, notLoopVars>>

LoopStep ==
    \/ \E failure \in {"none", "quota", "resync", "config", "housekeeping"} :
           LoopTop(failure)
    \/ \E read \in {"err", "ok"} : SeedCheck(read)
    \/ \E ok \in BOOLEAN : SeedSet(ok)
    \/ \E ok \in BOOLEAN : FetchExisting(ok)
    \/ \E ok \in BOOLEAN : DownloadMsgs(ok)
    \/ \E folder \in {"err", "unset", "set"} : GetFolderConfig(folder)
    \/ \E ok \in BOOLEAN : Prepare(ok)
    \/ \E ok \in BOOLEAN : FetchMoveDelete(ok)
    \/ \E result \in {"err", "moved", "none"} : ScanFolders(result)
    \/ \E ok \in BOOLEAN : Refetch(ok)
    \/ \E ok \in BOOLEAN : SyncSeenFlags(ok)
    \/ \E session \in {"none", "no_idle", "can_idle"} : EnterIdle(session)
    \/ \E ok \in BOOLEAN, info \in Infos : IdleReturns(ok, info)
    \/ \E info \in Infos : FakeIdleReturns(info)
    \/ \E outcome \in {"err", "limited", "ok"} : SmtpSends(outcome)
    \/ \E by \in {"timer", "interrupt"}, info \in Infos : SmtpWaitEnds(by, info)

LoopNext ==
    \/ LoopStarts
    \/ LoopStep
    \/ StopSignal
    \/ StartDrops
    \/ LoopStops
    \/ Restart

SpecLoop == LoopInit /\ [][LoopNext]_vars

\* the task of a loop is polled when its stop channel is closed or filled:
\* the ready stop receive is taken
FairSpecLoop == SpecLoop /\ WF_vars(LoopStops)

(***************************************************************************)
(* Properties of the folder loops.                                         *)
(***************************************************************************)
\* C21 as stated: once started, a folder loop or the SMTP loop never
\* terminates on its own, it cycles until the stop signal is received: a
\* started loop that has ended has received the stop signal.
C21_Original == (loop_pc = "ended") => (loop_stop = "full")

\* C21, amended: a started folder or SMTP loop ends only when its stop receive is
\* ready, with the stop signal or because the sender of the stop channel was
\* dropped; while the receive is pending no step of the loop, whatever
\* fails in it, ends the loop, the loop can always take its next step, and
\* it goes from idling back to the head of the loop; once the receive is
\* ready the loop takes no further step but its end, which is enabled.
C21_OnlyStopEnds ==
    /\ [](loop_pc = "ended" => loop_stop \in {"full", "closed"})
    /\ [][(loop_pc \in InLoop /\ loop_stop' \in Pending) => loop_pc' \in InLoop]_vars
    /\ [](loop_pc \in InLoop /\ loop_stop \in Pending => ENABLED LoopStep)
    /\ [][(loop_pc \in Idling /\ loop_pc' \in InLoop /\ loop_pc' # loop_pc)
          => loop_pc' = LoopHead(folder_meaning)]_vars
    /\ [][(loop_pc \in InLoop /\ loop_stop \notin Pending) => loop_pc' = "ended"]_vars
    /\ [](loop_pc \in InLoop /\ loop_stop \notin Pending => ENABLED LoopStops)

\* a loop that failed in this iteration, idled, and was then ended by the
\* stop signal
C21_Witness ==
    /\ loop_pc = "ended"
    /\ loop_stop = "full"
    /\ round.failed # {}
    /\ round.idled # "no"

\* C29: if fetch_move_delete on the watched folder fails, fetch_idle
\* triggers a reconnect and returns a non-probing interrupt info at once:
\* connectivity is not set to Connected, seen flags are not synchronised,
\* neither IDLE nor fake idle is entered and no folder is scanned.
C29_FetchFailure ==
    ("fetch" \in round.failed) =>
        /\ round.reconnect
        /\ round.info = Some(InterruptInfo(FALSE))
        /\ ~round.connected
        /\ ~round.synced
        /\ round.idled = "no"
        /\ round.scanned = "no"
        /\ round.fetches = 1
        /\ loop_pc \in {"top", "ended"}

C29_Witness ==
    /\ loop_pc = "top"
    /\ "fetch" \in round.failed
    /\ connectivity = "connected"

\* C30 as stated: a failure of any step of the folder scan phase, the scan
\* or the second fetch_move_delete, only logs a warning: it triggers no
\* reconnect and the iteration goes on to the seen-flag synchronisation.
C30_Original ==
    /\ [][(loop_pc \in {"scan", "refetch"} /\ loop_pc' # loop_pc /\ loop_pc' # "ended")
          => (round'.reconnect = round.reconnect /\ loop_pc' \in {"refetch", "sync"})]_vars

\* C30, amended: only the Inbox loop scans; if the scan reports moved
\* messages the watched folder is fetched a second time, else not; a failed
\* scan only logs a warning, triggers no reconnect and goes on to the
\* seen-flag synchronisation; a failed second fetch triggers a reconnect
\* and returns a non-probing info without synchronising seen flags, setting
\* the connectivity or idling.
C30_ScanPhase ==
    /\ [](round.scanned # "no" => folder_meaning = "inbox")
    /\ [][(loop_pc = "scan" /\ loop_pc' \notin {"scan", "ended"})
          => /\ loop_pc' = (IF round'.scanned = "moved" THEN "refetch" ELSE "sync")
             /\ round'.reconnect = round.reconnect
             /\ round'.fetches = 1]_vars
    /\ [](loop_pc \in {"sync", "idle", "idling"}
          => round.fetches = (IF round.scanned = "moved" THEN 2 ELSE 1))
    /\ []("refetch" \in round.failed
          => /\ round.reconnect
             /\ round.info = Some(InterruptInfo(FALSE))
             /\ ~round.connected
             /\ ~round.synced
             /\ round.idled = "no"
             /\ loop_pc \in {"top", "ended"})

\* a failed scan followed by the idle of the same iteration, and a failed
\* second fetch, are both reached; the witness is the first
C30_Witness ==
    /\ "scan" \in round.failed
    /\ round.idled = "idle"
    /\ loop_pc = "top"

C30_WitnessRefetch ==
    /\ "refetch" \in round.failed
    /\ round.scanned = "moved"
    /\ loop_pc = "top"

\* the calls of a pass of fetch_idle in the order of C31; the Inbox loop
\* also stores the seen flags after prepare and may fetch again after the scan
PassOrder == <<"prepare", "store_seen_flags", "fetch_move_delete", "delete_expired",
               "scan_folders", "fetch_move_delete_again", "sync_seen_flags",
               "set_connected", "idle_wait">>

\* the place of a call in PassOrder: idle and fake idle are the idle wait
Place(step) ==
    LET name == IF step \in {"idle", "fake_idle"} THEN "idle_wait" ELSE step
    IN  CHOOSE i \in DOMAIN PassOrder : PassOrder[i] = name

Made(r) == {r.steps[i] : i \in DOMAIN r.steps}

\* C31: within one folder loop the calls of a pass are made one after the
\* other in the order prepare, fetch_move_delete, delete_expired, (Inbox:
\* scan_folders), sync_seen_flags, set_connected, then idle or fake idle;
\* the expired messages are marked only after the fetch of the same pass;
\* the connectivity becomes Connected only in a pass whose prepare and
\* fetches succeeded, after the seen flags were synchronised and before the
\* idle wait begins, and IDLE is entered only after that.
C31_PassOrder ==
    /\ [](folder_meaning \in Folders =>
             \A i, j \in DOMAIN round.steps :
                 i < j => Place(round.steps[i]) < Place(round.steps[j]))
    /\ [](folder_meaning \in Folders =>
             /\ "fetch_move_delete" \in Made(round) => "prepare" \in Made(round)
             /\ "delete_expired" \in Made(round) =>
                    ("fetch_move_delete" \in Made(round) /\ "fetch" \notin round.failed)
             /\ "scan_folders" \in Made(round) =>
                    (folder_meaning = "inbox" /\ "delete_expired" \in Made(round))
             /\ "sync_seen_flags" \in Made(round) =>
                    /\ "delete_expired" \in Made(round)
                    /\ folder_meaning = "inbox" => "scan_folders" \in Made(round)
             /\ "set_connected" \in Made(round) =>
                    /\ "sync_seen_flags" \in Made(round)
                    /\ round.failed \cap {"prepare", "fetch", "refetch"} = {}
             /\ "idle" \in Made(round) => "set_connected" \in Made(round)
             /\ loop_pc \in {"idling", "fake_idle"} =>
                    round.steps[Len(round.steps)] \in {"idle", "fake_idle"})
    /\ [][(folder_meaning \in Folders /\ connectivity' = "connected"
               /\ connectivity # "connected")
              => /\ round'.steps = round.steps \o <<"sync_seen_flags", "set_connected">>
                 /\ loop_pc' = "idle"]_vars
    /\ [][(folder_meaning \in Folders /\ loop_pc' = "idling" /\ loop_pc # "idling")
              => connectivity = "connected"]_vars

\* an Inbox pass that made every call and is in IDLE
C31_Witness ==
    /\ folder_meaning = "inbox"
    /\ loop_pc = "idling"
    /\ round.steps = <<"prepare", "store_seen_flags", "fetch_move_delete",
                       "delete_expired", "scan_folders", "fetch_move_delete_again",
                       "sync_seen_flags", "set_connected", "idle">>

\* C32 as stated: seeding is once-only: across all iterations of the inbox
\* loop and all restarts of the scheduler fetch_existing_msgs is called at
\* most once on a store.
C32_Original == seed_attempts \in {"never", "once"}

\* C33 as stated: when download_msgs of an iteration of the inbox loop has
\* returned, every msg_id that was in the table download has been downloaded
\* and removed from it.
C33_Original ==
    [][(loop_pc = "download" /\ loop_pc' = "get_config") => download' = {}]_vars

\* C40: if the connection state of a worker is dropped without stop(), as
\* when Scheduler::start fails after it spawned the loop, the stop channel
\* is closed, the stop receive of the worker completes and the worker
\* ends, whatever it is doing: no worker keeps running on a closed stop
\* channel, and none takes a further step of its loop on it.
C40_DroppedSenderEnds ==
    /\ (loop_stop = "closed") ~> (loop_pc \in {"ended", "not_started"})
    /\ [][(loop_stop = "closed" /\ loop_pc' # loop_pc)
              => loop_pc' \in {"ended", "not_started", "spawned"}]_vars
    /\ [][(loop_stop = "closed" /\ loop_pc' = "spawned")
              => loop_pc \in {"ended", "not_started"}]_vars

\* the mvbox loop was connected and in IDLE when a failing Scheduler::start
\* dropped its started receiver and then its connection state: it ended
\* without a stop signal
C40_Witness ==
    /\ folder_meaning = "mvbox"
    /\ loop_pc = "ended"
    /\ loop_stop = "closed"
    /\ round.idled = "idle"
    /\ round.info = None

\* C34: when send_smtp_messages succeeds but the rate limit asks to wait,
\* the SMTP loop starts the wait without setting the connectivity and
\* without a fake idle; the wait can end by its timer and by an interrupt;
\* when it ends the loop is at the next send, the connectivity as it was
\* before the send and still without a fake idle.
C34_RatelimitWait ==
    /\ [][(loop_pc = "smtp_send" /\ loop_pc' = "smtp_ratelimit")
              => /\ connectivity' = connectivity
                 /\ round'.idled = "no"
                 /\ round'.failed = {}]_vars
    /\ [][(loop_pc = "smtp_ratelimit" /\ loop_pc' # "smtp_ratelimit")
              => /\ loop_pc' \in {"smtp_send", "ended"}
                 /\ connectivity' = connectivity
                 /\ round'.idled = "no"
                 /\ round'.steps = <<"send_smtp_messages", "ratelimit_wait">>]_vars
    /\ []((loop_pc = "smtp_ratelimit" /\ loop_stop \in Pending)
              => /\ ENABLED SmtpWaitEnds("timer", InterruptInfo(FALSE))
                 /\ ENABLED SmtpWaitEnds("interrupt", InterruptInfo(TRUE)))

\* a send failed and set the connectivity to the error; the next send was
\* rate limited, its wait ended by the timer and the loop is at the next
\* send with the connectivity of the failed send
C34_Witness ==
    /\ folder_meaning = "smtp"
    /\ loop_pc = "smtp_send"
    /\ round.steps = <<"send_smtp_messages", "ratelimit_wait">>
    /\ round.woke = "timer"
    /\ connectivity = "error"

(***************************************************************************)
(* The snapshot codec: src/src/sql/serialize.rs and                        *)
(* src/src/sql/deserialize.rs.  A stream is a sequence of bytes, each a    *)
(* one-character string; Bytes gives the bytes of the strings used.        *)
(***************************************************************************)
Bytes ==
    ("config" :> <<"c", "o", "n", "f", "i", "g">>)
    @@ ("contacts" :> <<"c", "o", "n", "t", "a", "c", "t", "s">>)
    @@ ("chats" :> <<"c", "h", "a", "t", "s">>)
    @@ ("leftgroups" :> <<"l", "e", "f", "t", "g", "r", "o", "u", "p", "s">>)
    @@ ("keypairs" :> <<"k", "e", "y", "p", "a", "i", "r", "s">>)
    @@ ("messages" :> <<"m", "e", "s", "s", "a", "g", "e", "s">>)
    @@ ("mdns" :> <<"m", "d", "n", "s">>)
    @@ ("id" :> <<"i", "d">>)
    @@ ("name" :> <<"n", "a", "m", "e">>)
    @@ ("addr" :> <<"a", "d", "d", "r">>)
    @@ ("origin" :> <<"o", "r", "i", "g", "i", "n">>)
    @@ ("blocked" :> <<"b", "l", "o", "c", "k", "e", "d">>)
    @@ ("last_seen" :> <<"l", "a", "s", "t", "_", "s", "e", "e", "n">>)
    @@ ("param" :> <<"p", "a", "r", "a", "m">>)
    @@ ("authname" :> <<"a", "u", "t", "h", "n", "a", "m", "e">>)
    @@ ("selfavatar_sent" :> <<"s", "e", "l", "f", "a", "v", "a", "t", "a", "r", "_", "s", "e", "n", "t">>)
    @@ ("status" :> <<"s", "t", "a", "t", "u", "s">>)
    @@ ("_config" :> <<"_", "c", "o", "n", "f", "i", "g">>)
    @@ ("acpeerstates" :> <<"a", "c", "p", "e", "e", "r", "s", "t", "a", "t", "e", "s">>)
    @@ ("chats_contacts" :> <<"c", "h", "a", "t", "s", "_", "c", "o", "n", "t", "a", "c", "t", "s">>)
    @@ ("dns_cache" :> <<"d", "n", "s", "_", "c", "a", "c", "h", "e">>)
    @@ ("imap" :> <<"i", "m", "a", "p">>)
    @@ ("imap_sync" :> <<"i", "m", "a", "p", "_", "s", "y", "n", "c">>)
    @@ ("locations" :> <<"l", "o", "c", "a", "t", "i", "o", "n", "s">>)
    @@ ("msgs_status_updates" :> <<"m", "s", "g", "s", "_", "s", "t", "a", "t", "u", "s", "_", "u", "p", "d", "a", "t", "e", "s">>)
    @@ ("multi_device_sync" :> <<"m", "u", "l", "t", "i", "_", "d", "e", "v", "i", "c", "e", "_", "s", "y", "n", "c">>)
    @@ ("reactions" :> <<"r", "e", "a", "c", "t", "i", "o", "n", "s">>)
    @@ ("sending_domains" :> <<"s", "e", "n", "d", "i", "n", "g", "_", "d", "o", "m", "a", "i", "n", "s">>)
    @@ ("tokens" :> <<"t", "o", "k", "e", "n", "s">>)
    @@ ("dbversion" :> <<"d", "b", "v", "e", "r", "s", "i", "o", "n">>)
    @@ ("99" :> <<"9", "9">>)
    @@ ("68" :> <<"6", "8">>)
    @@ ("gossip_key" :> <<"g", "o", "s", "s", "i", "p", "_", "k", "e", "y">>)
    @@ ("gossip_key_fingerprint" :> <<"g", "o", "s", "s", "i", "p", "_", "k", "e", "y", "_", "f", "i", "n", "g", "e", "r", "p", "r", "i", "n", "t">>)
    @@ ("gossip_timestamp" :> <<"g", "o", "s", "s", "i", "p", "_", "t", "i", "m", "e", "s", "t", "a", "m", "p">>)
    @@ ("last_seen_autocrypt" :> <<"l", "a", "s", "t", "_", "s", "e", "e", "n", "_", "a", "u", "t", "o", "c", "r", "y", "p", "t">>)
    @@ ("prefer_encrypted" :> <<"p", "r", "e", "f", "e", "r", "_", "e", "n", "c", "r", "y", "p", "t", "e", "d">>)
    @@ ("public_key" :> <<"p", "u", "b", "l", "i", "c", "_", "k", "e", "y">>)
    @@ ("public_key_fingerprint" :> <<"p", "u", "b", "l", "i", "c", "_", "k", "e", "y", "_", "f", "i", "n", "g", "e", "r", "p", "r", "i", "n", "t">>)
    @@ ("verified_key" :> <<"v", "e", "r", "i", "f", "i", "e", "d", "_", "k", "e", "y">>)
    @@ ("verified_key_fingerprint" :> <<"v", "e", "r", "i", "f", "i", "e", "d", "_", "k", "e", "y", "_", "f", "i", "n", "g", "e", "r", "p", "r", "i", "n", "t">>)
    @@ ("Ana" :> <<"A", "n", "a">>)
    @@ ("ana@x.y" :> <<"a", "n", "a", "@", "x", ".", "y">>)
    @@ ("hi" :> <<"h", "i">>)
    @@ ("K1" :> <<"K", "1">>)
    @@ ("F1" :> <<"F", "1">>)

\* the concatenation of the sequences ps[lo], ..., ps[hi]
RECURSIVE ConcatRange(_, _, _)
ConcatRange(ps, lo, hi) ==
    IF lo > hi THEN <<>>
    ELSE IF lo = hi THEN ps[lo]
    ELSE LET mid == (lo + hi) \div 2
         IN  ConcatRange(ps, lo, mid) \o ConcatRange(ps, mid + 1, hi)

Concat(ps) == ConcatRange(ps, 1, Len(ps))

\* A loop of the code is its body, Step, applied to the state of the loop
\* until the state is done; n bounds the number of turns.  The turns are
\* computed in halves to keep the evaluation shallow.
RECURSIVE Loop(_, _, _)
Loop(Step(_), st, n) ==
    IF n = 0 \/ st.done THEN st
    ELSE IF n = 1 THEN Step(st)
    ELSE Loop(Step, Loop(Step, st, n \div 2), n - (n \div 2))

DigitChars == <<"0", "1", "2", "3", "4", "5", "6", "7", "8", "9">>

\* format!("{i}") of an unsigned and of a signed integer
RECURSIVE format_u(_)
format_u(n) ==
    IF n < 10 THEN <<DigitChars[n + 1]>>
    ELSE format_u(n \div 10) \o <<DigitChars[(n % 10) + 1]>>

format_i(i) == IF i < 0 THEN <<"-">> \o format_u(0 - i) ELSE format_u(i)

\* u8::is_ascii_digit and the value of a digit
is_ascii_digit(c) == c \in Range(DigitChars)

DigitValue(c) == IndexOf(DigitChars, c, 1) - 1

RECURSIVE DigitsValue(_, _)
DigitsValue(ds, acc) ==
    IF ds = <<>> THEN acc
    ELSE DigitsValue(Tail(ds), acc * 10 + DigitValue(Head(ds)))

AllDigits(ds) == ds # <<>> /\ \A k \in 1..Len(ds) : is_ascii_digit(ds[k])

\* usize::from_str: an optional plus sign and decimal digits; None on Err
usize_from_str(str) ==
    LET ds == IF str # <<>> /\ Head(str) = "+" THEN Tail(str) ELSE str
    IN  IF AllDigits(ds) THEN Some(DigitsValue(ds, 0)) ELSE None

\* i64::from_str: an optional sign and decimal digits; None on Err
i64_from_str(str) ==
    LET signed == str # <<>> /\ Head(str) \in {"+", "-"}
        ds == IF signed THEN Tail(str) ELSE str
    IN  IF ~AllDigits(ds) THEN None
        ELSE IF signed /\ Head(str) = "-" THEN Some(0 - DigitsValue(ds, 0))
        ELSE Some(DigitsValue(ds, 0))

\* BencodeToken
Token(t, bytes, i) == [t |-> t, s |-> bytes, i |-> i]
TokEnd == Token("End", <<>>, 0)
TokList == Token("List", <<>>, 0)
TokDictionary == Token("Dictionary", <<>>, 0)
ByteString(bytes) == Token("ByteString", bytes, 0)
Integer(i) == Token("Integer", <<>>, i)

\* the bytes after the first n bytes of buf
Consume(buf, n) == SubSeq(buf, n + 1, Len(buf))

\* AsyncBufReadExt::read_until: the bytes up to and including the first
\* delimiter, or all the bytes left when there is none
read_until(buf, delim) ==
    LET k == IndexOf(buf, delim, 1)
    IN  IF k = 0 THEN buf ELSE SubSeq(buf, 1, k)

\* BencodeTokenizer: the bytes not yet read and the peeked token
Tokenizer(r) == [r |-> r, peeked |-> None]

\* results of next_token: Ok(Some(token)), Ok(None) and Err
Yield(tok, tk) == [kind |-> "tok", tok |-> tok, tk |-> tk]
AtEof(tk) == [kind |-> "eof", tok |-> TokEnd, tk |-> tk]
TokErr(tk) == [kind |-> "err", tok |-> TokEnd, tk |-> tk]

\* BencodeTokenizer::next_token; its loop never takes a second turn, every
\* arm of the match returns
next_token(tk) ==
    IF tk.peeked # None THEN Yield(tk.peeked[1], [tk EXCEPT !.peeked = None])
    ELSE IF tk.r = <<>> THEN AtEof(tk)
    ELSE LET buf == tk.r
             x == Head(buf)
         IN  CASE x = "e" -> Yield(TokEnd, [tk EXCEPT !.r = Consume(buf, 1)])
               [] x = "l" -> Yield(TokList, [tk EXCEPT !.r = Consume(buf, 1)])
               [] x = "d" -> Yield(TokDictionary, [tk EXCEPT !.r = Consume(buf, 1)])
               [] x = "i" ->
                    LET ibuf == read_until(buf, "e")
                        n == Len(ibuf)
                        num == IF n < 2 THEN None
                               ELSE i64_from_str(SubSeq(ibuf, 2, n - 1))
                    IN  IF num = None THEN TokErr(tk)
                        ELSE Yield(Integer(num[1]), [tk EXCEPT !.r = Consume(buf, n)])
               [] is_ascii_digit(x) ->
                    LET size_buf == read_until(buf, ":")
                        n == Len(size_buf)
                        size == usize_from_str(SubSeq(size_buf, 1, n - 1))
                        rest == Consume(buf, n)
                    IN  IF size = None THEN TokErr(tk)
                        ELSE IF Len(rest) < size[1] THEN TokErr(tk)
                        ELSE Yield(ByteString(SubSeq(rest, 1, size[1])),
                                   [tk EXCEPT !.r = Consume(rest, size[1])])
               [] OTHER -> TokErr(tk)

\* BencodeTokenizer::peek_token: the tokenizer afterwards, holding the token
hold_peeked(nx) ==
    IF nx.kind = "tok" THEN Yield(nx.tok, [nx.tk EXCEPT !.peeked = Some(nx.tok)]) ELSE nx

peek_token(tk) ==
    IF tk.peeked # None THEN Yield(tk.peeked[1], tk) ELSE hold_peeked(next_token(tk))

\* next_token called until it returns Ok(None) or Err: the tokens it
\* yielded and whether it ended with Err
read_token(st, nx) ==
    CASE nx.kind = "eof" -> [st EXCEPT !.done = TRUE]
      [] nx.kind = "err" -> [st EXCEPT !.done = TRUE, !.err = TRUE]
      [] OTHER -> [st EXCEPT !.tk = nx.tk, !.toks = Append(@, nx.tok)]

ReadStep(st) == read_token(st, next_token(st.tk))

read_result(st) == [toks |-> st.toks, err |-> st.err]

ReadTokens(tk) ==
    read_result(Loop(ReadStep, [tk |-> tk, toks |-> <<>>, err |-> FALSE, done |-> FALSE],
                     Len(tk.r) + 2))

\* write_bytes, write_str, write_i64, write_u32 and write_bool of the encoder
write_bytes(b) == format_u(Len(b)) \o <<":">> \o b \o <<"\n">>
write_str(str) == write_bytes(str)
write_i64(i) == <<"i">> \o format_i(i) \o <<"e", "\n">>
write_u32(i) == <<"i">> \o format_u(i) \o <<"e", "\n">>
write_bool(b) == IF b THEN <<"i", "1", "e", "\n">> ELSE <<"i", "0", "e", "\n">>

\* A store: the rows of table config, in the order a SELECT yields them, and
\* the rows of table contacts.  The tables chats, leftgrps, keypairs, msgs
\* and msgs_mdns of the stores of the model have no rows.
Store(cfg, contacts) == [config |-> cfg, contacts |-> contacts]
ConfigRow(keyname, value) == [keyname |-> keyname, value |-> value]

\* Encoder::serialize_config
serialize_config(store) ==
    <<"d", "\n">>
    \o Concat([k \in 1..Len(store.config) |->
                   write_str(store.config[k].keyname) \o write_str(store.config[k].value)])
    \o <<"e", "\n">>

\* one turn of the loop of Encoder::serialize_contacts
serialize_contact(row) ==
    <<"d", "\n">>
    \o write_str(Bytes["id"]) \o write_u32(row.id)
    \o write_str(Bytes["name"]) \o write_str(row.name)
    \o write_str(Bytes["addr"]) \o write_str(row.addr)
    \o (IF row.origin # None
        THEN write_str(Bytes["origin"]) \o write_u32(row.origin[1]) ELSE <<>>)
    \o write_str(Bytes["blocked"])
    \o write_bool(IF row.blocked = None THEN FALSE ELSE row.blocked[1])
    \o write_str(Bytes["last_seen"]) \o write_i64(row.last_seen)
    \o write_str(Bytes["param"]) \o write_str(row.param)
    \o write_str(Bytes["authname"]) \o write_str(row.authname)
    \o write_str(Bytes["selfavatar_sent"]) \o write_i64(row.selfavatar_sent)
    \o (IF row.status # None /\ row.status[1] # <<>>
        THEN write_str(Bytes["status"]) \o write_str(row.status[1]) ELSE <<>>)
    \o <<"e", "\n">>

\* Encoder::serialize_contacts
serialize_contacts(store) ==
    <<"l">>
    \o Concat([k \in 1..Len(store.contacts) |-> serialize_contact(store.contacts[k])])
    \o <<"e", "\n">>

\* Encoder::serialize_chats, _leftgroups, _keypairs, _messages and _mdns on
\* a table without rows
serialize_chats(store) == <<"l", "\n", "e", "\n">>
serialize_leftgroups(store) == <<"l", "e", "\n">>
serialize_keypairs(store) == <<"l", "\n", "e", "\n">>
serialize_messages(store) == <<"l", "\n", "e", "\n">>
serialize_mdns(store) == <<"l", "\n", "e", "\n">>

\* Encoder::serialize
Encoder_serialize(store) ==
    <<"d", "\n">>
    \o write_str(Bytes["config"]) \o serialize_config(store)
    \o write_str(Bytes["contacts"]) \o serialize_contacts(store)
    \o write_str(Bytes["chats"]) \o serialize_chats(store)
    \o write_str(Bytes["leftgroups"]) \o serialize_leftgroups(store)
    \o write_str(Bytes["keypairs"]) \o serialize_keypairs(store)
    \o write_str(Bytes["messages"]) \o serialize_messages(store)
    \o write_str(Bytes["mdns"]) \o serialize_mdns(store)
    \o <<"e", "\n">>

\* Decoder: its tokenizer, the error it failed with ("" while it has not
\* failed), the token and the flag its last call returned, the store as the
\* write transaction sees it, and the acpeerstates rows read so far
Decoder(store, r) ==
    [tk |-> Tokenizer(r), err |-> "", tok |-> TokEnd, flag |-> FALSE,
     tx |-> store, row |-> <<>>, peers |-> <<>>]

HasFailed(d) == d.err # ""
Fail(d, msg) == [d EXCEPT !.err = msg]

\* `.await?.context("unexpected end of file")?` on what the tokenizer returned
token_or_fail(d, nx) ==
    CASE nx.kind = "err" -> Fail(d, "tokenizer")
      [] nx.kind = "eof" -> Fail(d, "unexpected end of file")
      [] OTHER -> [d EXCEPT !.tk = nx.tk, !.tok = nx.tok]

\* Decoder::expect_token
expect_token(d) == IF HasFailed(d) THEN d ELSE token_or_fail(d, next_token(d.tk))

\* Decoder::peek_token
Decoder_peek_token(d) == IF HasFailed(d) THEN d ELSE token_or_fail(d, peek_token(d.tk))

\* the match of expect_end, expect_dictionary, expect_list, expect_string
\* and expect_i64 on the token read
match_kind(e, kind) ==
    IF HasFailed(e) THEN e
    ELSE IF e.tok.t = kind THEN e
    ELSE Fail(e, "unexpected token")

\* Decoder::expect_end, expect_dictionary, expect_list, expect_string, expect_i64
expect(d, kind) == match_kind(expect_token(d), kind)

expect_end(d) == expect(d, "End")
expect_dictionary(d) == expect(d, "Dictionary")
expect_list(d) == expect(d, "List")
expect_string(d) == expect(d, "ByteString")
expect_i64(d) == expect(d, "Integer")

\* Decoder::expect_dictionary_opt: the flag is its Ok value
match_dictionary_opt(e) ==
    IF HasFailed(e) THEN e
    ELSE IF e.tok.t = "Dictionary" THEN [e EXCEPT !.flag = TRUE]
    ELSE IF e.tok.t = "End" THEN [e EXCEPT !.flag = FALSE]
    ELSE Fail(e, "unexpected token")

expect_dictionary_opt(d) == match_dictionary_opt(expect_token(d))

\* Decoder::expect_key
match_key(e, expected_key) ==
    IF HasFailed(e) THEN e
    ELSE IF e.tok.t # "ByteString" THEN Fail(e, "unexpected token")
    ELSE IF e.tok.s = expected_key THEN e
    ELSE Fail(e, "unexpected key")

expect_key(d, expected_key) == match_key(expect_token(d), expected_key)

\* Decoder::expect_key_opt: the flag is its Ok value; the token is peeked
\* and stays in the tokenizer
match_key_opt(p, expected_key) ==
    IF HasFailed(p) THEN p
    ELSE IF p.tok.t = "ByteString" THEN [p EXCEPT !.flag = (p.tok.s = expected_key)]
    ELSE IF p.tok.t = "End" THEN [p EXCEPT !.flag = FALSE]
    ELSE Fail(p, "unexpected token")

expect_key_opt(d, expected_key) == match_key_opt(Decoder_peek_token(d), expected_key)

\* how many tokens the decoder can still read, at most
TokensLeft(d) == Len(d.tk.r) + 2

\* a loop of the decoder over the decoder d, and its end with the decoder e
Begin(d) == [d |-> d, level |-> 0, n |-> 1, dbversion_found |-> FALSE, done |-> HasFailed(d)]
Break(st, e) == [st EXCEPT !.d = e, !.done = TRUE]

\* one turn of the loop of Decoder::deserialize_config: the key, then the
\* value with the checks of dbversion, then the INSERT
config_value(st, keyname, is_version, v) ==
    IF HasFailed(v) THEN Break(st, v)
    ELSE IF is_version /\ st.dbversion_found
    THEN Break(st, Fail(v, "dbversion key found twice in the config"))
    ELSE IF is_version /\ v.tok.s # Bytes["99"]
    THEN Break(st, Fail(v, "unsupported serialized database version"))
    ELSE [st EXCEPT !.d = [v EXCEPT !.tx.config = Append(@, ConfigRow(keyname, v.tok.s))],
                    !.dbversion_found = @ \/ is_version]

config_key(st, e) ==
    IF HasFailed(e) THEN Break(st, e)
    ELSE IF e.tok.t = "ByteString"
    THEN config_value(st, e.tok.s, e.tok.s = Bytes["dbversion"], expect_string(e))
    ELSE IF e.tok.t = "End" THEN Break(st, e)
    ELSE Break(st, Fail(e, "unexpected token"))

ConfigStep(st) == config_key(st, expect_token(st.d))

config_end(st) ==
    IF HasFailed(st.d) THEN st.d
    ELSE IF ~st.dbversion_found THEN Fail(st.d, "no dbversion found in the config")
    ELSE st.d

\* Decoder::deserialize_config
deserialize_config(d) ==
    config_end(Loop(ConfigStep, Begin(expect_dictionary(d)), TokensLeft(d)))

\* the keys of a row of acpeerstates as deserialize_acpeerstates reads them
PeerKey(key, kind, opt) == [key |-> key, kind |-> kind, opt |-> opt]
PeerSchema ==
    << PeerKey("addr", "ByteString", FALSE),
       PeerKey("gossip_key", "ByteString", TRUE),
       PeerKey("gossip_key_fingerprint", "ByteString", TRUE),
       PeerKey("gossip_timestamp", "Integer", FALSE),
       PeerKey("last_seen", "Integer", FALSE),
       PeerKey("last_seen_autocrypt", "Integer", FALSE),
       PeerKey("prefer_encrypted", "Integer", FALSE),
       PeerKey("public_key", "ByteString", TRUE),
       PeerKey("public_key_fingerprint", "ByteString", TRUE),
       PeerKey("verified_key", "ByteString", TRUE),
       PeerKey("verified_key_fingerprint", "ByteString", TRUE) >>

PeerKeys == {PeerSchema[k].key : k \in 1..Len(PeerSchema)}
NoPeer == [key \in PeerKeys |-> None]

\* the value of a key of a row: expect_string or expect_i64
keep_value(v, slot) ==
    IF HasFailed(v) THEN v
    ELSE [v EXCEPT !.row[slot.key] = Some(IF slot.kind = "Integer" THEN v.tok.i ELSE v.tok.s)]

read_value(d, slot) == keep_value(expect(d, slot.kind), slot)

\* one key of a row: `expect_key(key); value` for a required key and
\* `if expect_key_opt(key) { Some(value) } else { None }` for an optional one
read_optional(k, slot) ==
    IF HasFailed(k) THEN k
    ELSE IF k.flag THEN read_value(k, slot)
    ELSE k

read_slot(d, slot) ==
    IF slot.opt THEN read_optional(expect_key_opt(d, Bytes[slot.key]), slot)
    ELSE read_value(expect_key(d, Bytes[slot.key]), slot)

\* the keys of one row, in the order of the schema
next_slot(st, d) ==
    [st EXCEPT !.d = d, !.n = @ + 1, !.done = HasFailed(d) \/ st.n = Len(PeerSchema)]

SlotStep(st) == next_slot(st, read_slot(st.d, PeerSchema[st.n]))

read_slots(d) == Loop(SlotStep, Begin(d), Len(PeerSchema)).d

\* one turn of the loop of Decoder::deserialize_acpeerstates
row_end(st, r) ==
    IF HasFailed(r) THEN Break(st, r)
    ELSE [st EXCEPT !.d = [r EXCEPT !.peers = Append(@, r.row)]]

row_begin(st, e) ==
    IF HasFailed(e) \/ ~e.flag THEN Break(st, e)
    ELSE row_end(st, expect_end(read_slots([e EXCEPT !.row = NoPeer])))

RowStep(st) == row_begin(st, expect_dictionary_opt(st.d))

\* Decoder::deserialize_acpeerstates
deserialize_acpeerstates(d) == Loop(RowStep, Begin(expect_list(d)), TokensLeft(d)).d

\* one turn of the loop of Decoder::skip_until_end
skip_token(st, e) ==
    IF HasFailed(e) THEN Break(st, e)
    ELSE IF e.tok.t = "End"
    THEN IF st.level = 0 THEN Break(st, e)
         ELSE [st EXCEPT !.d = e, !.level = @ - 1]
    ELSE IF e.tok.t \in {"List", "Dictionary"} THEN [st EXCEPT !.d = e, !.level = @ + 1]
    ELSE [st EXCEPT !.d = e]

SkipStep(st) == skip_token(st, expect_token(st.d))

\* Decoder::skip_until_end
skip_until_end(d) == Loop(SkipStep, Begin(d), TokensLeft(d)).d

\* Decoder::deserialize_chats and the other sections that are read and
\* dropped, deserialize_contacts among them
skip_section(d) == skip_until_end(expect_list(d))

\* the keys Decoder::deserialize expects after acpeerstates, in its order
SkippedSections ==
    <<"chats", "chats_contacts", "contacts", "dns_cache", "imap", "imap_sync",
      "keypairs", "leftgroups", "locations", "mdns", "messages",
      "msgs_status_updates", "multi_device_sync", "reactions", "sending_domains",
      "tokens">>

next_section(st, d) ==
    [st EXCEPT !.d = d, !.n = @ + 1, !.done = HasFailed(d) \/ st.n = Len(SkippedSections)]

SectionStep(st) ==
    next_section(st, skip_section(expect_key(st.d, Bytes[SkippedSections[st.n]])))

skip_sections(d) == Loop(SectionStep, Begin(d), Len(SkippedSections)).d

\* Decoder::deserialize; it ends without a commit
Decoder_deserialize(d) ==
    expect_end(
        skip_sections(
            deserialize_acpeerstates(
                expect_key(
                    deserialize_config(expect_key(expect_dictionary(d), Bytes["_config"])),
                    Bytes["acpeerstates"]))))

\* the store after the write transaction is dropped: rolled back unless
\* it was committed
end_tx_keeps_writes(store, tx, committed) == tx

end_tx(store, tx, committed) == IF committed THEN tx ELSE store

\* what Sql::deserialize returns, what the decoder d read, and the store
\* afterwards
Outcome(store, d) ==
    [result |-> IF HasFailed(d) THEN "Err" ELSE "Ok",
     err |-> d.err,
     tx |-> d.tx,
     peers |-> d.peers,
     store |-> end_tx(store, d.tx, FALSE)]

\* Sql::deserialize on a store and a stream
Sql_deserialize(store, r) == Outcome(store, Decoder_deserialize(Decoder(store, r)))

\* Sql::serialize: the bytes written
Sql_serialize(store) == Encoder_serialize(store)

(***************************************************************************)
(* Snapshot streams given to the decoder.  A stream is described by its    *)
(* content: the pairs of _config, the rows of acpeerstates, the rows of    *)
(* contacts, and nl, the number of its leading tokens that are followed by *)
(* a newline.  Its sections are those the decoder expects, in its order.   *)
(***************************************************************************)
\* Largest number of newlines put into a stream given to the decoder.
MaxNewlines == 2

Snapshot(cfg, peers, contacts, nl) ==
    [cfg |-> cfg, peers |-> peers, contacts |-> contacts, nl |-> nl]

\* the bytes of one token without a separator
TokenBytes(tok) ==
    CASE tok.t = "End" -> <<"e">>
      [] tok.t = "List" -> <<"l">>
      [] tok.t = "Dictionary" -> <<"d">>
      [] tok.t = "Integer" -> <<"i">> \o format_i(tok.i) \o <<"e">>
      [] OTHER -> format_u(Len(tok.s)) \o <<":">> \o tok.s

\* the bytes of a token sequence, a newline after each of the first nl tokens
Render(tokens, nl) ==
    Concat([k \in 1..Len(tokens) |->
                TokenBytes(tokens[k]) \o (IF k <= nl THEN <<"\n">> ELSE <<>>)])

\* the tokens of a stream in which newlines separate tokens
RECURSIVE SkipNewlines(_)
SkipNewlines(buf) ==
    IF buf # <<>> /\ Head(buf) = "\n" THEN SkipNewlines(Tail(buf)) ELSE buf

FormatStep(st) ==
    LET nx == next_token(Tokenizer(SkipNewlines(st.r)))
    IN  IF nx.kind = "tok" THEN [st EXCEPT !.r = nx.tk.r, !.toks = Append(@, nx.tok)]
        ELSE [st EXCEPT !.done = TRUE]

FormatTokens(buf) ==
    Loop(FormatStep, [r |-> buf, toks |-> <<>>, done |-> FALSE], Len(buf) + 1).toks

\* the tokens of a row of acpeerstates: its keys in schema order, an
\* optional key only when the row has a value for it
PeerTokens(row) ==
    <<TokDictionary>>
    \o Concat([k \in 1..Len(PeerSchema) |->
                   LET slot == PeerSchema[k]
                   IN  IF row[slot.key] = None THEN <<>>
                       ELSE <<ByteString(Bytes[slot.key]),
                              IF slot.kind = "Integer" THEN Integer(row[slot.key][1])
                              ELSE ByteString(row[slot.key][1])>>])
    \o <<TokEnd>>

\* the tokens of a section that is a list of rows
ListTokens(name, rows) ==
    <<ByteString(Bytes[name]), TokList>> \o Concat(rows) \o <<TokEnd>>

SnapshotTokens(snap) ==
    <<TokDictionary, ByteString(Bytes["_config"]), TokDictionary>>
    \o Concat([k \in 1..Len(snap.cfg) |->
                   <<ByteString(snap.cfg[k].keyname), ByteString(snap.cfg[k].value)>>])
    \o <<TokEnd>>
    \o ListTokens("acpeerstates", [k \in 1..Len(snap.peers) |-> PeerTokens(snap.peers[k])])
    \o Concat([n \in 1..Len(SkippedSections) |->
                   ListTokens(SkippedSections[n],
                              IF SkippedSections[n] = "contacts"
                              THEN [k \in 1..Len(snap.contacts) |->
                                       FormatTokens(serialize_contact(snap.contacts[k]))]
                              ELSE <<>>)])
    \o <<TokEnd>>

\* the inputs of the model
VersionRow(v) == ConfigRow(Bytes["dbversion"], Bytes[v])
AddrRow == ConfigRow(Bytes["addr"], Bytes["ana@x.y"])

Ana(status) ==
    [id |-> 10, name |-> Bytes["Ana"], addr |-> Bytes["ana@x.y"], origin |-> Some(16),
     blocked |-> Some(FALSE), last_seen |-> 1700000000, param |-> <<>>,
     authname |-> <<>>, selfavatar_sent |-> 0, status |-> status]

Peer(optional) ==
    [key \in PeerKeys |->
        CASE key = "addr" -> Some(Bytes["ana@x.y"])
          [] key \in {"gossip_timestamp", "last_seen", "last_seen_autocrypt"} -> Some(17)
          [] key = "prefer_encrypted" -> Some(1)
          [] key \in optional ->
               Some(IF key \in {"gossip_key", "public_key", "verified_key"}
                    THEN Bytes["K1"] ELSE Bytes["F1"])
          [] OTHER -> None]

SnapshotConfigs ==
    { <<VersionRow("99")>>, <<AddrRow, VersionRow("99")>>, <<AddrRow>>, <<>>,
      <<AddrRow, VersionRow("68")>>, <<VersionRow("99"), AddrRow, VersionRow("99")>> }

SnapshotPeers ==
    { <<>>, <<Peer({})>>, <<Peer({"gossip_key"})>>,
      <<Peer({}), Peer({"public_key", "public_key_fingerprint"})>> }

ContactRows == { <<>>, <<Ana(None)>>, <<Ana(Some(Bytes["hi"]))>> }

Snapshots ==
    { Snapshot(cfg, peers, contacts, nl) :
        cfg \in SnapshotConfigs, peers \in SnapshotPeers,
        contacts \in {<<>>, <<Ana(None)>>}, nl \in 0..MaxNewlines }

\* stores after the migrations have run: dbversion is 99
SenderStores ==
    { Store(cfg, contacts) :
        cfg \in {<<VersionRow("99")>>, <<AddrRow, VersionRow("99")>>},
        contacts \in ContactRows }

ReceiverStores == { Store(<<VersionRow("99")>>, <<>>), Store(<<VersionRow("99")>>, <<Ana(None)>>) }

NoSnapshot == Snapshot(<<>>, <<>>, <<>>, 0)
NoRead == [toks |-> <<>>, err |-> FALSE]
NoDecoded ==
    [of |-> "none", read |-> NoRead, result |-> "none", err |-> "", tx |-> <<>>,
     peers |-> <<>>]

CodecInit ==
    /\ db \in [sender : SenderStores, receiver : ReceiverStores]
    /\ wire = <<>>
    /\ toks = NoSnapshot
    /\ codec_pc = "idle"
    /\ decoded = NoDecoded
    /\ config = None
    /\ sending_domains = {}
    /\ pc = "off"
    /\ mail = NoMail
    /\ ret = NoRet
    /\ old = NoStore
    /\ locals = NoLocals
    /\ hdrs = <<>>
    /\ fdom = domX
    /\ parsed = <<>>
    /\ ppc = "off"
    /\ SmtpOff
    /\ SchedOff
    /\ LoopOff
    /\ FoldersOff
    /\ IdleOff
    /\ GateOff

\* what no step of the codec touches
notCodecVars == <<authresVars, parseVars, smtpVars, schedVars, loopVars,
    foldersVars, idleVars, gateVars>>

\* Sql::serialize on the sender's store
Serialize ==
    /\ codec_pc = "idle"
    /\ wire' = Sql_serialize(db.sender)
    /\ codec_pc' = "encoded"
    /\ UNCHANGED <<db, toks, decoded>>
    /\ UNCHANGED notCodecVars

\* a snapshot stream arrives from elsewhere
ReceiveSnapshot(snap) ==
    /\ codec_pc = "idle"
    /\ toks' = snap
    /\ wire' = Render(SnapshotTokens(snap), snap.nl)
    /\ codec_pc' = "crafted"
    /\ UNCHANGED <<db, decoded>>
    /\ UNCHANGED notCodecVars

\* the tokenizer alone reads the stream to its end
Tokenize ==
    /\ codec_pc \in {"encoded", "crafted"}
    /\ decoded' = [NoDecoded EXCEPT !.of = codec_pc, !.read = ReadTokens(Tokenizer(wire))]
    /\ codec_pc' = "tokenized"
    /\ UNCHANGED <<db, wire, toks>>
    /\ UNCHANGED notCodecVars

\* Sql::deserialize of the stream into the receiver's store
DeserializeReturns(out) ==
    /\ decoded' = [of |-> codec_pc, read |-> NoRead, result |-> out.result,
                   err |-> out.err, tx |-> out.tx, peers |-> out.peers]
    /\ db' = [db EXCEPT !.receiver = out.store]

Deserialize ==
    /\ codec_pc \in {"encoded", "crafted"}
    /\ DeserializeReturns(Sql_deserialize(db.receiver, wire))
    /\ codec_pc' = "decoded"
    /\ UNCHANGED <<wire, toks>>
    /\ UNCHANGED notCodecVars

CodecNext ==
    \/ Serialize
    \/ \E snap \in Snapshots : ReceiveSnapshot(snap)
    \/ Tokenize
    \/ Deserialize

SpecCodec == CodecInit /\ [][CodecNext]_vars

(***************************************************************************)
(* Properties of the snapshot codec.  The content of a stream is read off  *)
(* its tokens: the entries of the top-level dictionary, each a key and the *)
(* tokens of its value.                                                    *)
(***************************************************************************)
\* the index of the last token of the value that starts at tokens[k]
ValueStep(st) ==
    LET t == st.tokens[st.k].t
        level == CASE t \in {"List", "Dictionary"} -> st.level + 1
                   [] t = "End" -> st.level - 1
                   [] OTHER -> st.level
    IN  IF level <= 0 \/ st.k = Len(st.tokens)
        THEN [st EXCEPT !.done = TRUE]
        ELSE [st EXCEPT !.k = @ + 1, !.level = level]

ValueEnd(tokens, k) ==
    Loop(ValueStep, [tokens |-> tokens, k |-> k, level |-> 0, done |-> k > Len(tokens)],
         Len(tokens)).k

EntryStep(st) ==
    IF st.k > Len(st.tokens) \/ st.tokens[st.k].t # "ByteString"
    THEN [st EXCEPT !.done = TRUE]
    ELSE LET last == ValueEnd(st.tokens, st.k + 1)
         IN  [st EXCEPT !.k = last + 1,
                        !.entries = Append(@, [key |-> st.tokens[st.k].s,
                                               value |-> SubSeq(st.tokens, st.k + 1, last)])]

\* the entries of the dictionary that starts at tokens[1]
Entries(tokens) ==
    IF tokens = <<>> \/ tokens[1].t # "Dictionary" THEN <<>>
    ELSE Loop(EntryStep, [tokens |-> tokens, k |-> 2, entries |-> <<>>, done |-> FALSE],
              Len(tokens)).entries

TopKeys(tokens) == [j \in 1..Len(Entries(tokens)) |-> Entries(tokens)[j].key]

\* the key/value pairs of the top-level section `name`, a dictionary of strings
SectionPairs(tokens, name) ==
    UNION { { <<e.key, e.value[1].s>> : e \in Range(Entries(top.value)) } :
              top \in { t \in Range(Entries(tokens)) : t.key = name } }

\* the keys the decoder requires, in its order
SnapshotKeys ==
    <<Bytes["_config"], Bytes["acpeerstates"]>>
    \o [n \in 1..Len(SkippedSections) |-> Bytes[SkippedSections[n]]]

\* whether a _config lacks dbversion, has it twice or has a version that is not 99
BadVersion(cfg) ==
    LET at == {k \in 1..Len(cfg) : cfg[k].keyname = Bytes["dbversion"]}
    IN  Cardinality(at) # 1 \/ \E k \in at : cfg[k].value # Bytes["99"]

\* C22 as stated: the encoder emits the top-level keys _config, acpeerstates,
\* chats, ..., tokens in exactly the order the decoder requires.
C22_Original == (codec_pc = "encoded") => (TopKeys(FormatTokens(wire)) = SnapshotKeys)

\* C23 as stated: decoding the bytes Sql::serialize produced for a store
\* succeeds and yields a store whose config entries and contacts rows equal
\* those of the encoded store.
C23_Original ==
    (codec_pc = "decoded" /\ decoded.of = "encoded") =>
        /\ decoded.result = "Ok"
        /\ db.receiver.config = db.sender.config
        /\ db.receiver.contacts = db.sender.contacts

\* C24: a snapshot whose _config has no dbversion, a dbversion other than
\* "99" or dbversion twice is rejected with an error, and whenever
\* Sql::deserialize returns an error the store is exactly as it was before
\* the call, whatever the decoder had written into its transaction.
C24_Rejection ==
    /\ []((codec_pc = "decoded" /\ decoded.of = "crafted" /\ BadVersion(toks.cfg))
          => decoded.result = "Err")
    /\ [][(codec_pc' = "decoded" /\ decoded'.result = "Err") => db' = db]_vars

\* a stream rejected for its version after a pair of it had been inserted
C24_Witness ==
    /\ codec_pc = "decoded"
    /\ decoded.err = "unsupported serialized database version"
    /\ decoded.tx # db.receiver

\* C25 as stated: newlines between the tokens of a stream change neither the
\* tokens next_token yields nor cause an error.
C25_Original ==
    (codec_pc = "tokenized" /\ decoded.of = "crafted") =>
        /\ ~decoded.read.err
        /\ decoded.read.toks = SnapshotTokens(toks)

\* C26 as stated: a row of acpeerstates with its keys in schema order
\* decodes without error whether its optional keys are present or absent,
\* and the value read for a present optional key is the token after the key.
C26_Original ==
    (codec_pc = "decoded" /\ decoded.of = "crafted" /\ toks.nl = 0 /\ ~BadVersion(toks.cfg)) =>
        /\ decoded.result = "Ok"
        /\ decoded.peers = toks.peers

\* C27 as stated: the encoder always emits the key dbversion with value "99"
\* inside the _config section.
C27_Original ==
    (codec_pc = "encoded") =>
        (<<Bytes["dbversion"], Bytes["99"]>>
             \in SectionPairs(FormatTokens(wire), Bytes["_config"]))

\* C28 as stated: after Sql::deserialize succeeded the store contains the
\* key/value pairs of the snapshot's _config and its contacts rows.
C28_Original ==
    (codec_pc = "decoded" /\ decoded.of = "crafted" /\ decoded.result = "Ok") =>
        /\ Range(toks.cfg) \subseteq Range(db.receiver.config)
        /\ Range(toks.contacts) \subseteq Range(db.receiver.contacts)

(***************************************************************************)
(* The folder loops of one scheduler side by side: inbox_loop and the      *)
(* simple_imap_loop of each watched folder of src/src/scheduler.rs, every  *)
(* one a task of its own calling fetch_idle on its own connection.         *)
(***************************************************************************)
\* the variables of the gate and of the parser while neither is modelled
AuthresOff ==
    /\ config = None
    /\ sending_domains = {}
    /\ pc = "off"
    /\ mail = NoMail
    /\ ret = NoRet
    /\ old = NoStore
    /\ locals = NoLocals

ParseOff ==
    /\ hdrs = <<>>
    /\ fdom = domX
    /\ parsed = <<>>
    /\ ppc = "off"

\* Scheduler::start spawns the inbox loop always and a simple loop for
\* Mvbox and for Sent when should_watch says so
Watched == {{"inbox"} \cup others : others \in SUBSET {"mvbox", "sentbox"}}

\* the awaits of fetch_idle a loop can be at
Passes == {"get_config", "prepare", "fetch", "scan", "refetch", "sync", "idle",
           "fake_idle"}

FoldersInit ==
    /\ scan_pc \in UNION {[w -> {"get_config"}] : w \in Watched}
    /\ AuthresOff
    /\ ParseOff
    /\ SmtpOff
    /\ SchedOff
    /\ LoopOff
    /\ CodecOff
    /\ IdleOff
    /\ GateOff

\* what no step of the folder loops touches
notFoldersVars == <<authresVars, parseVars, smtpVars, schedVars, loopVars,
                    codecVars, idleVars, gateVars>>

\* whether fetch_idle scans the other folders after the fetch:
\* folder_config == Config::ConfiguredInboxFolder
scans_every_folder(meaning) == TRUE

scans(meaning) == meaning = "inbox"

\* the loop of folder f moves from one await of fetch_idle to another
Moves(f, from, to) ==
    /\ f \in DOMAIN scan_pc
    /\ scan_pc[f] = from
    /\ scan_pc' = [scan_pc EXCEPT ![f] = to]
    /\ UNCHANGED notFoldersVars

\* get_config of the folder: Err or not set goes to fake idle
FolderConfig(f, folder) ==
    Moves(f, "get_config", IF folder = "set" THEN "prepare" ELSE "fake_idle")

\* connection.prepare: Err goes to fake idle
FolderPrepare(f, ok) == Moves(f, "prepare", IF ok THEN "fetch" ELSE "fake_idle")

\* fetch_move_delete and delete_expired_imap_messages: Err returns from
\* fetch_idle, and the loop calls it again
FolderFetch(f, ok) ==
    Moves(f, "fetch", IF ~ok THEN "get_config"
                      ELSE IF scans(f) THEN "scan" ELSE "sync")

\* scan_folders returns
FolderScan(f, result) == Moves(f, "scan", after_scan(result))

\* the second fetch_move_delete
FolderRefetch(f, ok) == Moves(f, "refetch", IF ok THEN "sync" ELSE "get_config")

\* sync_seen_flags, set_connected and session.take()
FolderSync(f, session) ==
    Moves(f, "sync", IF session = "can_idle" THEN "idle" ELSE "fake_idle")

\* idle or fake_idle returns: the loop calls fetch_idle again
FolderIdleReturns(f) ==
    \/ Moves(f, "idle", "get_config")
    \/ Moves(f, "fake_idle", "get_config")

FoldersNext ==
    \E f \in Folders :
        \/ \E folder \in {"err", "unset", "set"} : FolderConfig(f, folder)
        \/ \E ok \in BOOLEAN : FolderPrepare(f, ok)
        \/ \E ok \in BOOLEAN : FolderFetch(f, ok)
        \/ \E result \in {"err", "moved", "none"} : FolderScan(f, result)
        \/ \E ok \in BOOLEAN : FolderRefetch(f, ok)
        \/ \E session \in {"none", "no_idle", "can_idle"} : FolderSync(f, session)
        \/ FolderIdleReturns(f)

SpecFolders == FoldersInit /\ [][FoldersNext]_vars

\* C36: folder scans never run in parallel: only the Inbox loop is ever in
\* scan_folders, so with the Inbox, Mvbox and Sent loops running
\* concurrently at most one scan is in progress.
C36_OneScan ==
    /\ \A f \in DOMAIN scan_pc : scan_pc[f] = "scan" => f = "inbox"
    /\ Cardinality({f \in DOMAIN scan_pc : scan_pc[f] = "scan"}) <= 1

\* the Inbox loop scans while the Mvbox and the Sent loop fetch
C36_Witness ==
    /\ DOMAIN scan_pc = Folders
    /\ scan_pc["inbox"] = "scan"
    /\ scan_pc["mvbox"] = "fetch"
    /\ scan_pc["sentbox"] = "fetch"

(***************************************************************************)
(* Imap::idle and Imap::fake_idle of src/src/imap/idle.rs.  imap is the    *)
(* connection: pc is the await the call is at ("out" between two calls),   *)
(* skip_next_idle_wait and can_idle are its fields, idle_interrupt tells   *)
(* whether the interrupt channel holds a message.  The other fields record *)
(* the call: which function, the flag when it was entered, whether its     *)
(* wait was skipped, what its last tick did, how it and the call before it *)
(* ended, and how many waits were skipped since the flag was last raised.  *)
(***************************************************************************)
\* the awaits of idle and of fake_idle at which the interrupt channel is read
\* or will be read before the call returns
InFakeIdle == {"fake_wait", "fake_connect", "fake_fetch"}

IdleInit ==
    /\ imap \in [pc : {"out"}, skip_next_idle_wait : {FALSE}, can_idle : BOOLEAN,
                  idle_interrupt : {FALSE}, watch_folder : {None}, call : {"none"},
                  flag_at_entry : {FALSE}, wait : {"none"}, tick : {"none"},
                  reconnect : {FALSE}, last : {"none"}, prev : {"none"}, skips : {0}]
    /\ AuthresOff
    /\ ParseOff
    /\ SmtpOff
    /\ SchedOff
    /\ LoopOff
    /\ CodecOff
    /\ FoldersOff
    /\ GateOff

\* what no step of idle or fake_idle touches
notIdleVars == <<authresVars, parseVars, smtpVars, schedVars, loopVars,
                 codecVars, foldersVars, gateVars>>

\* the connection when a call of idle or fake_idle begins
Entered(m, call, folder) ==
    [m EXCEPT !.call = call, !.watch_folder = folder,
              !.flag_at_entry = m.skip_next_idle_wait, !.wait = "none",
              !.tick = "none", !.reconnect = FALSE, !.last = "running",
              !.prev = m.last]

\* the connection when the call returns
Left(m, how) == [m EXCEPT !.pc = "out", !.last = how]

\* the flag after a wait was skipped: self.skip_next_idle_wait = false
flag_after_skip_kept(flag) == flag

flag_after_skip(flag) == FALSE

\* the connection once the flag made it skip the wait
Skipped(m) ==
    [m EXCEPT !.skip_next_idle_wait = flag_after_skip(@), !.wait = "skipped",
              !.skips = @ + 1]

\* idle is called: without the IDLE capability it returns Err at once
IdleEnter(folder) ==
    /\ imap.pc = "out"
    /\ imap' = IF imap.can_idle
               THEN [Entered(imap, "idle", folder) EXCEPT !.pc = "idle_setup"]
               ELSE Left(Entered(imap, "idle", folder), "idle_err")
    /\ UNCHANGED notIdleVars

\* idle up to the wait: setup_handle_if_needed, select_folder and
\* handle.init() may fail, the session may be missing; with the handle
\* initialised the flag decides at once whether the wait is skipped
IdleSetup(result) ==
    /\ imap.pc = "idle_setup"
    /\ imap' = CASE result \in {"setup_err", "select_err", "init_err"} ->
                       Left(imap, "idle_err")
                 [] result = "no_session" -> Left(imap, "idle_no_session")
                 [] OTHER ->
                       IF imap.skip_next_idle_wait
                       THEN [Skipped(imap) EXCEPT !.pc = "idle_done"]
                       ELSE [imap EXCEPT !.pc = "idle_wait", !.wait = "waited"]
    /\ UNCHANGED notIdleVars

\* the race of idle_wait and idle_interrupt.recv() ends: new data, the
\* timeout, an error, or a message on the interrupt channel
IdleWaitEnds(cause) ==
    /\ imap.pc = "idle_wait"
    /\ cause = "interrupt" => imap.idle_interrupt
    /\ imap' = [imap EXCEPT !.pc = "idle_done",
                            !.idle_interrupt = IF cause = "interrupt" THEN FALSE ELSE @]
    /\ UNCHANGED notIdleVars

\* handle.done() with its timeout of 15 s: a timeout and an error trigger
\* a reconnect and return Err, Ok keeps the session
IdleDone(res) ==
    /\ imap.pc = "idle_done"
    /\ imap' = IF res = "ok"
               THEN Left(imap, IF imap.wait = "skipped" THEN "idle_skipped"
                               ELSE "idle_waited")
               ELSE Left([imap EXCEPT !.reconnect = TRUE], "idle_err")
    /\ UNCHANGED notIdleVars

\* fake_idle is called: with the flag set the wait is skipped and the call
\* returns, else the interval is created and the polling starts
FakeIdleEnter(folder) ==
    /\ imap.pc = "out"
    /\ imap' = IF imap.skip_next_idle_wait
               THEN Left(Skipped(Entered(imap, "fake_idle", folder)), "fake_skipped")
               ELSE [Entered(imap, "fake_idle", folder) EXCEPT
                         !.pc = "fake_wait", !.wait = "waited"]
    /\ UNCHANGED notIdleVars

\* the race of interval.next() and idle_interrupt.recv(): the tick
FakeTick ==
    /\ imap.pc = "fake_wait"
    /\ imap' = [imap EXCEPT !.pc = "fake_connect", !.tick = "ticking"]
    /\ UNCHANGED notIdleVars

\* the race of interval.next() and idle_interrupt.recv(): the interrupt
FakeInterrupted ==
    /\ imap.pc = "fake_wait"
    /\ imap.idle_interrupt
    /\ imap' = Left([imap EXCEPT !.idle_interrupt = FALSE], "fake_interrupt")
    /\ UNCHANGED notIdleVars

\* whether the tick that ended this way breaks the polling loop
breaks_on_error(tick) == tick \in {"can_idle", "new", "fetch_err"}

breaks(tick) == tick \in {"can_idle", "new"}

\* the connection after a tick that ended this way
Ticked(m, tick) ==
    IF breaks(tick) THEN Left([m EXCEPT !.tick = tick], "fake_" \o tick)
    ELSE [m EXCEPT !.pc = "fake_wait", !.tick = tick]

\* connect_configured on a tick: Err goes on polling; Ok tells whether the
\* server can IDLE: if so the loop breaks, else the folder, if any, is fetched
ConnectConfigured(ok, can) ==
    /\ imap.pc = "fake_connect"
    /\ ~ok => can = imap.can_idle
    /\ imap' = IF ~ok THEN Ticked(imap, "connect_err")
               ELSE IF can THEN Ticked([imap EXCEPT !.can_idle = TRUE], "can_idle")
               ELSE IF imap.watch_folder = None
                    THEN Ticked([imap EXCEPT !.can_idle = FALSE], "no_folder")
                    ELSE [imap EXCEPT !.can_idle = FALSE, !.pc = "fake_fetch"]
    /\ UNCHANGED notIdleVars

\* fetch_new_messages on a tick: Ok(true) breaks the loop, Ok(false) goes on
\* polling, Err triggers a reconnect and goes on polling
FetchNewMessages(res) ==
    /\ imap.pc = "fake_fetch"
    /\ imap' = Ticked([imap EXCEPT !.reconnect = (res = "fetch_err") \/ @], res)
    /\ UNCHANGED notIdleVars

\* an interrupt of the idle: while the call reads the interrupt channel the
\* message is put into its one slot, and dropped when the slot is full;
\* before that the flag is raised for the next wait
InterruptIdle ==
    /\ imap' = IF imap.pc \in InFakeIdle \cup {"idle_wait"}
               THEN [imap EXCEPT !.idle_interrupt = TRUE]
               ELSE [imap EXCEPT !.skip_next_idle_wait = TRUE,
                                 !.skips = IF imap.skip_next_idle_wait THEN @ ELSE 0]
    /\ UNCHANGED notIdleVars

WatchFolders == {None, Some("INBOX")}

IdleNext ==
    \/ \E folder \in WatchFolders : IdleEnter(folder)
    \/ \E result \in {"setup_err", "select_err", "no_session", "init_err", "ready"} :
           IdleSetup(result)
    \/ \E cause \in {"new_data", "timeout", "interrupt", "err"} : IdleWaitEnds(cause)
    \/ \E res \in {"timeout", "err", "ok"} : IdleDone(res)
    \/ \E folder \in WatchFolders : FakeIdleEnter(folder)
    \/ FakeTick
    \/ FakeInterrupted
    \/ \E ok, can \in BOOLEAN : ConnectConfigured(ok, can)
    \/ \E res \in {"new", "nothing", "fetch_err"} : FetchNewMessages(res)
    \/ InterruptIdle

SpecIdle == IdleInit /\ [][IdleNext]_vars

(***************************************************************************)
(* Properties of idle and fake_idle.                                       *)
(***************************************************************************)
\* a step by which the call of fake_idle in progress returns
FakeIdleReturn == imap.pc \in InFakeIdle /\ imap'.pc = "out"

\* C37: fake_idle returns only (a) from its wait with a message taken from
\* the interrupt channel, (b) on a tick whose connect succeeded with a
\* server that can IDLE, (c) on a tick whose fetch of the watched folder
\* found new messages, or (d) at once, with the wait skipped because the
\* flag was set; a tick whose connect fails, or which has no folder to
\* fetch, or whose fetch finds nothing or fails, goes back to the wait; in
\* the wait a tick is always possible, and the return when the channel
\* holds a message.
C37_FakeIdleExits ==
    /\ [][FakeIdleReturn =>
              \/ /\ imap'.last = "fake_interrupt"
                 /\ imap.pc = "fake_wait"
                 /\ imap.idle_interrupt /\ ~imap'.idle_interrupt
              \/ /\ imap'.last = "fake_can_idle"
                 /\ imap.pc = "fake_connect"
                 /\ imap'.can_idle
              \/ /\ imap'.last = "fake_new"
                 /\ imap.pc = "fake_fetch"
                 /\ imap.watch_folder # None
                 /\ imap'.tick = "new"]_vars
    /\ [][(imap.pc = "out" /\ imap'.call = "fake_idle" /\ imap'.pc = "out"
               /\ imap'.last # imap.last)
              => /\ imap'.last = "fake_skipped"
                 /\ imap.skip_next_idle_wait
                 /\ imap'.wait = "skipped"]_vars
    /\ [][(imap.pc \in {"fake_connect", "fake_fetch"}
               /\ imap'.tick \in {"connect_err", "no_folder", "nothing", "fetch_err"})
              => imap'.pc = "fake_wait"]_vars
    /\ [](imap.pc = "fake_wait" => ENABLED FakeTick)
    /\ []((imap.pc = "fake_wait" /\ imap.idle_interrupt) => ENABLED FakeInterrupted)

\* fake_idle on a watched folder polled through a tick whose fetch failed
\* and returned on a later tick whose fetch found new messages
C37_Witness ==
    /\ imap.call = "fake_idle"
    /\ imap.pc = "out"
    /\ imap.last = "fake_new"
    /\ imap.reconnect
    /\ ~imap.can_idle

\* C38 as stated: if the flag is set when idle or fake_idle is entered, the
\* wait of that call is skipped: a call entered with the flag set has
\* returned with its wait skipped.
C38_Original ==
    (imap.pc = "out" /\ imap.flag_at_entry) => imap.wait = "skipped"

\* C38, amended: the flag is one pending bit consumed exactly once, by the
\* first wait that is reached: the flag is cleared only by skipping a wait
\* and a skipped wait clears it; a wait is begun only with the flag unset;
\* fake_idle entered with the flag set skips its wait; a call of idle that
\* returns before its wait, with an error or without a session, leaves the
\* flag as it is; and since the flag was last raised at most one wait was
\* skipped.
C38_OnePendingBit ==
    /\ [][(imap.skip_next_idle_wait /\ ~imap'.skip_next_idle_wait)
              => (imap'.skips = imap.skips + 1 /\ imap'.wait = "skipped")]_vars
    /\ [][(imap'.skips = imap.skips + 1)
              => /\ imap.skip_next_idle_wait /\ ~imap'.skip_next_idle_wait
                 /\ imap'.pc \in {"idle_done", "out"}]_vars
    /\ [][(imap'.pc \in {"idle_wait", "fake_wait"} /\ imap.pc \in {"out", "idle_setup"})
              => (~imap.skip_next_idle_wait /\ ~imap'.skip_next_idle_wait)]_vars
    /\ [][(imap.pc = "out" /\ imap.skip_next_idle_wait /\ imap'.call = "fake_idle"
               /\ imap'.last # imap.last)
              => (imap'.last = "fake_skipped" /\ ~imap'.skip_next_idle_wait)]_vars
    /\ [][(/\ \/ \E folder \in WatchFolders : IdleEnter(folder)
               \/ \E result \in {"setup_err", "select_err", "no_session", "init_err"} :
                      IdleSetup(result)
            /\ imap'.pc = "out")
              => imap'.skip_next_idle_wait = imap.skip_next_idle_wait]_vars
    /\ [](imap.skips <= 1)

\* idle was entered with the flag set and returned Err before its wait: the
\* flag is still set and no wait was skipped since it was raised
C38_Witness ==
    /\ imap.pc = "out"
    /\ imap.call = "idle"
    /\ imap.last = "idle_err"
    /\ imap.flag_at_entry
    /\ imap.skip_next_idle_wait
    /\ imap.wait = "none"
    /\ imap.skips = 0

\* the flag raised before a call of idle made that call skip its wait, and
\* the call of fake_idle after it waited
C38_WitnessSkip ==
    /\ imap.call = "fake_idle"
    /\ imap.pc = "fake_wait"
    /\ imap.prev = "idle_skipped"
    /\ imap.skips = 1

(***************************************************************************)
(* handle_authres of src/src/authres_handling.rs run by two folder loops   *)
(* on one store.  Every await of update_authservid_candidates and of       *)
(* should_allow_keychange is a step of its own: the store is read and      *)
(* written by separate statements, not inside one transaction.  gate holds *)
(* the store (config, sending_domains), the run of each loop, and for each *)
(* domain whose dkim_works is set the candidate set the pass was decided   *)
(* against (derived).                                                      *)
(***************************************************************************)
Runners == {"inbox", "mvbox"}

\* the parsed Authentication-Results and the From domain of the messages
GateMails ==
    { [authres |-> <<[id |-> idB, dkim |-> Failed], [id |-> idA, dkim |-> Passed]>>,
       from_domain |-> domX],
      [authres |-> <<[id |-> idA, dkim |-> Passed]>>, from_domain |-> domX],
      [authres |-> <<[id |-> idB, dkim |-> Passed]>>, from_domain |-> domY],
      [authres |-> <<>>, from_domain |-> domY] }

NoRun == [at |-> "idle", authres |-> <<>>, from_domain |-> <<>>, new_ids |-> {},
          ids |-> {}, dkim_passed |-> FALSE]

GateInit ==
    /\ gate = [config |-> None, sending_domains |-> {}, derived |-> <<>>,
               runs |-> [r \in Runners |-> NoRun]]
    /\ AuthresOff
    /\ ParseOff
    /\ SmtpOff
    /\ SchedOff
    /\ LoopOff
    /\ CodecOff
    /\ FoldersOff
    /\ IdleOff

\* what no step of the concurrent gate touches
notGateVars == <<authresVars, parseVars, smtpVars, schedVars, loopVars,
                 codecVars, foldersVars, idleVars>>

\* the ids of the results of a message
IdsOf(authres) == {authres[i].id : i \in DOMAIN authres}

\* new_ids of update_authservid_candidates: the intersection with the
\* stored candidates unless it is empty
NewIds(authres, old_ids) ==
    IF old_ids \cap IdsOf(authres) # {} THEN old_ids \cap IdsOf(authres)
    ELSE IdsOf(authres)

\* handle_authres is called for a message: update_authservid_candidates
\* returns at once when the message has no authentication results
GateReceive(r, m) ==
    /\ gate.runs[r].at = "idle"
    /\ gate' = [gate EXCEPT !.runs[r] =
                    [NoRun EXCEPT !.authres = m.authres,
                                  !.from_domain = m.from_domain,
                                  !.at = IF m.authres = <<>> THEN "get_ids"
                                         ELSE "get_old"]]
    /\ UNCHANGED notGateVars

\* update_authservid_candidates: get_config(AuthservidCandidates) returns;
\* the new candidates are computed from what was read
GateGetOld(r) ==
    /\ gate.runs[r].at = "get_old"
    /\ gate' = [gate EXCEPT
                  !.runs[r].new_ids =
                      NewIds(gate.runs[r].authres,
                             parse_authservid_candidates_config(gate.config)),
                  !.runs[r].at =
                      IF parse_authservid_candidates_config(gate.config)
                            # NewIds(gate.runs[r].authres,
                                     parse_authservid_candidates_config(gate.config))
                      THEN "set_config" ELSE "get_ids"]
    /\ UNCHANGED notGateVars

\* update_authservid_candidates: set_config(AuthservidCandidates) returns
GateSetConfig(r, order) ==
    /\ gate.runs[r].at = "set_config"
    /\ order \in Orders(gate.runs[r].new_ids)
    /\ gate' = [gate EXCEPT !.config = Some(Join(order)), !.runs[r].at = "clear"]
    /\ UNCHANGED notGateVars

\* update_authservid_candidates: clear_dkim_works returns
GateClear(r) ==
    /\ gate.runs[r].at = "clear"
    /\ gate' = [gate EXCEPT !.sending_domains = clear_dkim_works(@),
                            !.derived = <<>>,
                            !.runs[r].at = "get_ids"]
    /\ UNCHANGED notGateVars

\* should_allow_keychange: get_config(AuthservidCandidates) returns; the
\* foreign results are removed and the first verdict decides dkim_passed
GateGetIds(r) ==
    /\ gate.runs[r].at = "get_ids"
    /\ gate' = [gate EXCEPT
                  !.runs[r].ids = parse_authservid_candidates_config(gate.config),
                  !.runs[r].dkim_passed = dkim_decision(gate.runs[r].authres, gate.config),
                  !.runs[r].at = "dkim_works"]
    /\ UNCHANGED notGateVars

\* should_allow_keychange: dkim_works(from_domain) returns; the run ends
\* unless the flag is to be set
GateDkimWorks(r) ==
    /\ gate.runs[r].at = "dkim_works"
    /\ gate' = [gate EXCEPT
                  !.runs[r].at =
                      IF ~dkim_works(gate.sending_domains, gate.runs[r].from_domain)
                         /\ gate.runs[r].dkim_passed
                      THEN "set_dkim_works" ELSE "idle"]
    /\ UNCHANGED notGateVars

\* should_allow_keychange: set_dkim_works(from_domain) returns, and the run
\* ends
GateSetDkimWorks(r) ==
    /\ gate.runs[r].at = "set_dkim_works"
    /\ gate' = [gate EXCEPT
                  !.sending_domains = set_dkim_works(@, gate.runs[r].from_domain),
                  !.derived = (gate.runs[r].from_domain :> gate.runs[r].ids) @@ @,
                  !.runs[r].at = "idle"]
    /\ UNCHANGED notGateVars

GateNext ==
    \E r \in Runners :
        \/ \E m \in GateMails : GateReceive(r, m)
        \/ GateGetOld(r)
        \/ \E order \in SeqsUpTo({idA, idB}, 2) : GateSetConfig(r, order)
        \/ GateClear(r)
        \/ GateGetIds(r)
        \/ GateDkimWorks(r)
        \/ GateSetDkimWorks(r)

SpecGate == GateInit /\ [][GateNext]_vars

(***************************************************************************)
(* Properties of the concurrent gate.                                      *)
(***************************************************************************)
\* C35 as stated: with the reads and writes of two runs of the gate
\* interleaved in any order, a run sets dkim_works only while the
\* candidates it decided against are the stored ones, and once a change of
\* the candidates is complete (no run is between set_config and
\* clear_dkim_works) every dkim_works flag in the store was derived from a
\* pass decided against the stored candidates.
C35_Original ==
    /\ \A r \in Runners :
           gate.runs[r].at = "set_dkim_works" =>
               gate.runs[r].ids = parse_authservid_candidates_config(gate.config)
    /\ (\A r \in Runners : gate.runs[r].at # "clear") =>
           \A d \in DOMAIN gate.derived :
               gate.derived[d] = parse_authservid_candidates_config(gate.config)
====
